---- MODULE Spec2Model ----
(***************************************************************************)
(* CryptoAuth session core (rust/cjdns_sys/src/crypto/crypto_auth.rs).     *)
(*                                                                         *)
(* Byte strings are symbolic terms, written as flat tuples of integers so  *)
(* that any two of them can be compared:                                   *)
(*   <<0>>                    32 zero bytes                                *)
(*   <<1, k>>                 the Curve25519 public key of private key k   *)
(*   <<2, a, b>>              scalarmult of two key pairs a <= b           *)
(*   <<3, n>> \o P            scalarmult of private key n and the bytes P  *)
(*   <<4>> \o x               SHA-256 of x                                 *)
(*   <<5>> \o h \o d          SHA-256 of (DH output d || password hash h)  *)
(*   <<6>> \o d               NaCl precomputed key of DH output d          *)
(*   <<7, hn>> \o k \o p      XSalsa20 ciphertext of p, key k, nonce hn    *)
(*   <<8, r>>                 r-th draw of random filler bytes             *)
(* An Option is <<>> for None and the value itself for Some.  A private    *)
(* key is a natural number, 0 standing for 32 zero bytes.                  *)
(*                                                                         *)
(* A u32 is held as the 32-bit two's-complement integer with the same      *)
(* bits: 0 .. 2^31 - 1 are themselves, u32::MAX is -1, u32::MAX - 15 is    *)
(* -16.  ULt and ULe compare such values as unsigned numbers.              *)
(***************************************************************************)
EXTENDS Integers, Sequences, FiniteSets, TLC

VARIABLES
    sess,       \* sess[s]: the SessionMut of session s
    rp,         \* rp[s]: the ReplayProtector of session s
    users,      \* users[s]: the user registry of the CryptoAuth context of s
    rng,        \* rng[s]: number of draws made from the context's Random
    now,        \* EventBase::current_time_seconds()
    net,        \* packets emitted by encrypt and not yet forgotten
    result,     \* result[s]: what the last call on session s returned
    lastPrefix, \* lastPrefix[s]: nonce prefix of the last packet encrypt emitted
                \* since the last reset of s, the counter of s below MAX_NONCE
                \* ever since, as a set ({}: none)
    accepted,   \* accepted[s]: nonces of the traffic packets decrypt accepted
                \* on the established session s since it was established
    script,     \* progress of the two-party exchange A->B, B->A, A->B, A->B;
                \* under SpecRnd the locals of test_encrypt_decrypt_rnd_nonce
    threads,    \* threads[t]: position of thread t inside encrypt
    lock,       \* holder of the SessionMut lock of session "A"
    emitted     \* counters the traffic packets of "A" were sealed with since
                \* its last reset

vars == <<sess, rp, users, rng, now, net, result, lastPrefix, accepted, script,
          threads, lock, emitted>>

----------------------------------------------------------------------------
(* Bounds of the model                                                     *)

\* handshake packets one session may emit (each draws fresh random bytes)
MaxRand == 3
\* clock ticks
MaxTicks == 2
\* seconds per clock tick
TickSeconds == 30
\* users one registry may hold
MaxUsers == 3
\* traffic packets one session may emit one at a time
MaxTraffic == 1
\* packets in flight between two sessions
MaxNet == 2

----------------------------------------------------------------------------
(* Program constants                                                       *)

U32_MAX == -1
MAX_NONCE == U32_MAX - 15

\* a < b and a <= b on u32
ULt(a, b) == IF (a < 0) = (b < 0) THEN a < b ELSE b < 0
ULe(a, b) == IF a = b THEN TRUE ELSE ULt(a, b)

\* whether a + k leaves the u32 range, for a small k > 0
Overflows(a, k) == a < 0 /\ a + k >= 0

Init_ == 0
SentHello == 1
ReceivedHello == 2
SentKey == 3
ReceivedKey == 4
Established == 100

NonceHello == 0
NonceRepeatHello == 1
NonceKey == 2
NonceRepeatKey == 3
FirstTrafficPacket == 4

AuthZero == 0
AuthOne == 1
AuthTwo == 2

CryptoHeaderSize == 120
ReplayWindow == 64

DEFAULT_RESET_AFTER_INACTIVITY_SECONDS == 60
DEFAULT_SETUP_RESET_AFTER_INACTIVITY_SECONDS == 10

None == <<>>
Zero == <<0>>
IsZero(x) == x = Zero

Sessions == {"A", "B"}
Peer(s) == IF s = "A" THEN "B" ELSE "A"

\* permanent private keys of the two contexts; A's public key is the lower
PermPriv(s) == IF s = "A" THEN 1 ELSE 2

----------------------------------------------------------------------------
(* Cryptographic adapters                                                  *)

\* crypto_scalarmult_curve25519_base
PubKey(priv) == <<1, priv>>

\* the comparison of two public keys the other way round
PubLess_swapped(p, q) == q[2] < p[2]

\* PublicKey's Ord: byte-wise comparison (here: by the key pair's index)
PubLess(p, q) == p[2] < q[2]

\* IpV6::try_from(&PublicKey): the address a permanent key hashes to
Ip6Of(pub) == <<4, 4>> \o pub

crypto_hash_sha256(x) == <<4>> \o x

scalarmult(n, P) ==
    IF P[1] = 1
    THEN <<2, IF n < P[2] THEN n ELSE P[2], IF n < P[2] THEN P[2] ELSE n>>
    ELSE <<3, n>> \o P

get_shared_secret(my_private_key, her_public_key, password_hash) ==
    IF password_hash # None
    THEN <<5>> \o password_hash \o scalarmult(my_private_key, her_public_key)
    ELSE <<6>> \o scalarmult(my_private_key, her_public_key)

\* hash_password: (secret_out, challenge_out); the challenge's key bytes are
\* the auth type and bytes 1..8 of the hash
hash_password(login, password, auth_type) ==
    [secret |-> crypto_hash_sha256(password),
     challenge |-> [auth_type |-> auth_type,
                    lookup |-> IF auth_type = AuthOne
                               THEN crypto_hash_sha256(crypto_hash_sha256(password))
                               ELSE crypto_hash_sha256(login)]]

\* u32::to_be on a little-endian host: the four bytes swapped
to_be(x) ==
    LET b0 == x % 256
    IN  (IF b0 >= 128 THEN b0 - 256 ELSE b0) * 16777216
            + ((x \div 256) % 256) * 65536
            + ((x \div 65536) % 256) * 256 + ((x \div 16777216) % 256)

\* XSalsa20 ciphertext of the 32 bytes of `plain` under `secret` and `nonce`
Ciphertext(nonce, plain, secret) == <<7, nonce>> \o secret \o plain

----------------------------------------------------------------------------
(* SessionMut                                                              *)

\* Session::new
NewSession(s, require_auth, t) ==
    [her_public_key |-> PubKey(PermPriv(Peer(s))),
     shared_secret |-> Zero,
     her_temp_pub_key |-> Zero,
     our_temp_priv_key |-> 0,
     our_temp_pub_key |-> Zero,
     password |-> None,
     login |-> None,
     next_nonce |-> Init_,
     time_of_last_packet |-> t,
     auth_type |-> AuthZero,
     is_initiator |-> FALSE,
     require_auth |-> require_auth,
     established |-> FALSE,
     reset_after_inactivity_seconds |-> DEFAULT_RESET_AFTER_INACTIVITY_SECONDS,
     setup_reset_after_inactivity_seconds |->
         DEFAULT_SETUP_RESET_AFTER_INACTIVITY_SECONDS]

\* a reset that forgets the keys and the counter but not the role
reset_keeps_initiator(m) ==
    [m EXCEPT !.next_nonce = Init_,
              !.our_temp_priv_key = 0,
              !.our_temp_pub_key = Zero,
              !.her_temp_pub_key = Zero,
              !.shared_secret = Zero,
              !.established = FALSE]

\* SessionMut::reset
reset(m) ==
    [m EXCEPT !.next_nonce = Init_,
              !.is_initiator = FALSE,
              !.our_temp_priv_key = 0,
              !.our_temp_pub_key = Zero,
              !.her_temp_pub_key = Zero,
              !.shared_secret = Zero,
              !.established = FALSE]

\* SessionMut::set_auth
set_auth(m, password, login) ==
    IF password = None /\ (m.password # None \/ m.auth_type # AuthZero)
    THEN reset([m EXCEPT !.password = None, !.auth_type = AuthZero])
    ELSE IF m.password = None \/ m.password # password
    THEN reset([m EXCEPT !.password = password,
                         !.auth_type = IF login # None THEN AuthTwo ELSE AuthOne,
                         !.login = IF login # None THEN login ELSE @])
    ELSE m

\* SessionMut::get_state
get_state(m) ==
    IF ULe(m.next_nonce, ReceivedKey) THEN m.next_nonce
    ELSE IF m.established THEN Established
    ELSE ReceivedKey

\* whether reset_if_timeout resets
TimedOut(m, t) ==
    /\ m.next_nonce # SentHello
    /\ ~ (t - m.time_of_last_packet < m.setup_reset_after_inactivity_seconds)
    /\ ~ (/\ t - m.time_of_last_packet < m.reset_after_inactivity_seconds
          /\ m.established)

\* a reset_if_timeout that never resets
reset_if_timeout_idle(m, t) == m

\* SessionMut::reset_if_timeout
reset_if_timeout(m, t) ==
    IF TimedOut(m, t)
    THEN reset([m EXCEPT !.time_of_last_packet = t])
    ELSE m

----------------------------------------------------------------------------
(* Messages                                                                *)

\* a payload is named by a number; this is its length in bytes
PayloadLen(p) == IF p = 0 THEN 0 ELSE IF p = 1 THEN 8 ELSE 104

\* What encrypt_handshake leaves in the message: the CryptoHeader (nonce,
\* auth, handshake_nonce, public_key, the 32 bytes at encrypted_temp_key as
\* they are on the wire) and the sealed content.  `key` is the secret the
\* Poly1305 tag verifies under, `temp` the 32 bytes the open leaves in the
\* message in place of encrypted_temp_key.
HandshakePacket(nonce, auth_type, lookup, hn, pk, key, etk, temp, content) ==
    [nonce |-> nonce, auth_type |-> auth_type, lookup |-> lookup, hn |-> hn,
     pk |-> pk, key |-> key, etk |-> etk, temp |-> temp, seal |-> 0, dir |-> 0,
     content |-> content, len |-> CryptoHeaderSize + PayloadLen(content)]

\* What encrypt leaves in the message in the traffic phase: the 4-byte prefix
\* and the content sealed under `key` with the 24-byte nonce that holds the
\* counter `seal` in the u32 slot `dir`.
TrafficPacket(prefix, seal, dir, key, content) ==
    [nonce |-> prefix, auth_type |-> AuthZero, lookup |-> None, hn |-> 0,
     pk |-> Zero, key |-> key, etk |-> Zero, temp |-> Zero, seal |-> seal,
     dir |-> dir,
     content |-> content, len |-> 4 + 16 + PayloadLen(content)]

\* the r-th ephemeral private key drawn from the Random of the context of s
TempPriv(s, r) == 10 * r + PermPriv(s)

----------------------------------------------------------------------------
(* Outbound                                                                *)

\* an encrypt_handshake that draws a temporary key pair for every packet
encrypt_handshake_redrawn(m, payload, s, r) ==
    LET both == m.login # None /\ m.password # None
        hp == hash_password(m.login, m.password, m.auth_type)
        password_hash == IF both THEN hp.secret ELSE None
        lookup == IF both THEN hp.challenge.lookup ELSE <<8, r>>
        fresh == TRUE
        m1 == IF fresh
              THEN [m EXCEPT !.our_temp_priv_key = TempPriv(s, r),
                             !.our_temp_pub_key = PubKey(TempPriv(s, r))]
              ELSE m
        hello == ULt(m.next_nonce, ReceivedHello)
        shared_secret ==
            IF hello
            THEN get_shared_secret(PermPriv(s), m.her_public_key, password_hash)
            ELSE get_shared_secret(PermPriv(s), m.her_temp_pub_key, password_hash)
        m2 == IF hello
              THEN [m1 EXCEPT !.is_initiator = TRUE, !.next_nonce = SentHello]
              ELSE [m1 EXCEPT !.next_nonce = SentKey]
    IN  IF ULt(m2.next_nonce, ReceivedHello) = IsZero(m2.her_temp_pub_key)
        THEN [m |-> m2, ret |-> "Ok",
              pkts |-> {HandshakePacket(to_be(m.next_nonce), m.auth_type, lookup,
                            r, PubKey(PermPriv(s)), shared_secret,
                            Ciphertext(r, m1.our_temp_pub_key, shared_secret),
                            m1.our_temp_pub_key, payload)}]
        ELSE [m |-> m2, ret |-> "Internal", pkts |-> {}]

\* SessionMut::encrypt_handshake, with r the index of the random draw
encrypt_handshake(m, payload, s, r) ==
    LET both == m.login # None /\ m.password # None
        hp == hash_password(m.login, m.password, m.auth_type)
        password_hash == IF both THEN hp.secret ELSE None
        lookup == IF both THEN hp.challenge.lookup ELSE <<8, r>>
        fresh == m.next_nonce = Init_ \/ m.next_nonce = ReceivedHello
        m1 == IF fresh
              THEN [m EXCEPT !.our_temp_priv_key = TempPriv(s, r),
                             !.our_temp_pub_key = PubKey(TempPriv(s, r))]
              ELSE m
        hello == ULt(m.next_nonce, ReceivedHello)
        shared_secret ==
            IF hello
            THEN get_shared_secret(PermPriv(s), m.her_public_key, password_hash)
            ELSE get_shared_secret(PermPriv(s), m.her_temp_pub_key, password_hash)
        m2 == IF hello
              THEN [m1 EXCEPT !.is_initiator = TRUE, !.next_nonce = SentHello]
              ELSE [m1 EXCEPT !.next_nonce = SentKey]
    IN  IF ULt(m2.next_nonce, ReceivedHello) = IsZero(m2.her_temp_pub_key)
        THEN [m |-> m2, ret |-> "Ok",
              pkts |-> {HandshakePacket(to_be(m.next_nonce), m.auth_type, lookup,
                            r, PubKey(PermPriv(s)), shared_secret,
                            Ciphertext(r, m1.our_temp_pub_key, shared_secret),
                            m1.our_temp_pub_key, payload)}]
        ELSE [m |-> m2, ret |-> "Internal", pkts |-> {}]

\* an encrypt that goes on with the counter it finds, however high
encrypt_begin_no_wrap(m, payload, s, r, t) ==
    LET m2 == reset_if_timeout(m, t)
        m3 == IF m2.next_nonce = ReceivedKey
              THEN [m2 EXCEPT !.shared_secret =
                       get_shared_secret(m2.our_temp_priv_key,
                                         m2.her_temp_pub_key, None)]
              ELSE m2
    IN  IF ULt(m2.next_nonce, ReceivedKey)
        THEN encrypt_handshake(m2, payload, s, r) @@ [seal |-> 0]
        ELSE IF PayloadLen(payload) = 0
        THEN [m |-> m3, ret |-> "Internal", pkts |-> {}, seal |-> 0]
        ELSE [m |-> m3, ret |-> "Seal", pkts |-> {}, seal |-> m3.next_nonce]

\* SessionMut::encrypt up to the seal of a traffic packet (lines 472-518):
\* ret "Seal" means the write lock was downgraded and the message sealed
\* with the counter `seal`
encrypt_begin(m, payload, s, r, t) ==
    LET m1 == reset_if_timeout(m, t)
        m2 == IF ULe(MAX_NONCE, m1.next_nonce) THEN reset(m1) ELSE m1
        m3 == IF m2.next_nonce = ReceivedKey
              THEN [m2 EXCEPT !.shared_secret =
                       get_shared_secret(m2.our_temp_priv_key,
                                         m2.her_temp_pub_key, None)]
              ELSE m2
    IN  IF ULt(m2.next_nonce, ReceivedKey)
        THEN encrypt_handshake(m2, payload, s, r) @@ [seal |-> 0]
        ELSE IF PayloadLen(payload) = 0
        THEN [m |-> m3, ret |-> "Internal", pkts |-> {}, seal |-> 0]
        ELSE [m |-> m3, ret |-> "Seal", pkts |-> {}, seal |-> m3.next_nonce]
\* an encrypt that emits the packet without advancing the counter
encrypt_end_no_increment(m, payload, seal) ==
    [m |-> m,
     ret |-> "Ok",
     pkts |-> {TrafficPacket(to_be(m.next_nonce), seal,
                             IF m.is_initiator THEN 1 ELSE 0,
                             m.shared_secret, payload)}]

\* SessionMut::encrypt after the seal (lines 520-525): the lock is upgraded,
\* the prefix pushed and the counter incremented
encrypt_end(m, payload, seal) ==
    [m |-> [m EXCEPT !.next_nonce = m.next_nonce + 1],
     ret |-> "Ok",
     pkts |-> {TrafficPacket(to_be(m.next_nonce), seal,
                             IF m.is_initiator THEN 1 ELSE 0,
                             m.shared_secret, payload)}]

\* SessionMut::encrypt as one call
encrypt(m, payload, s, r, t) ==
    LET b == encrypt_begin(m, payload, s, r, t)
    IN  IF b.ret = "Seal"
        THEN encrypt_end(b.m, payload, b.seal)
        ELSE [m |-> b.m, ret |-> b.ret, pkts |-> b.pkts]

----------------------------------------------------------------------------
(* ReplayProtector: a sliding window of ReplayWindow bits above `base`     *)

\* ReplayProtector::new, ReplayProtector::reset
RpNew == [base |-> 0, bits |-> {}]

\* ReplayProtector::init
RpInit(n) == [base |-> n, bits |-> {}]

\* ReplayProtector::check_nonce: the new window and whether n is accepted
check_nonce(w, n) ==
    IF ULt(n, w.base) THEN [rp |-> w, ok |-> FALSE]
    ELSE IF ULe(ReplayWindow, n - w.base)
    THEN LET shift == (n - w.base) - (ReplayWindow - 1)
         IN  [rp |-> [base |-> w.base + shift,
                      bits |-> {b - shift : b \in {x \in w.bits : ULe(shift, x)}}
                                   \cup {ReplayWindow - 1}],
              ok |-> TRUE]
    ELSE IF (n - w.base) \in w.bits THEN [rp |-> w, ok |-> FALSE]
    ELSE [rp |-> [w EXCEPT !.bits = @ \cup {n - w.base}], ok |-> TRUE]

----------------------------------------------------------------------------
(* Authenticator                                                           *)

\* the User that add_user_ipv6 builds; n is the length of the registry
NewUser(password, login, ipv6, n) ==
    LET l == IF login # None THEN login ELSE <<9, n>>
    IN  [password_hash |-> hash_password(None, password, AuthOne).challenge.lookup,
         user_name_hash |-> hash_password(l, password, AuthTwo).challenge.lookup,
         secret |-> hash_password(None, password, AuthOne).secret,
         login |-> l,
         restricted_to_ip6 |-> ipv6]

\* CryptoAuth::add_user_ipv6: the registry after the call and what it returns
add_user_ipv6(us, password, login, ipv6) ==
    LET user == NewUser(password, login, ipv6, Len(us))
    IN  IF \E i \in 1..Len(us) :
               /\ user.secret # us[i].secret
               /\ login # None
               /\ login = us[i].login
        THEN [users |-> us, ret |-> "Duplicate"]
        ELSE [users |-> Append(us, user), ret |-> "Ok"]

\* CryptoAuth::remove_users
remove_users(us, login) ==
    LET keep(u) == ~ (login = None \/ login = u.login)
    IN  [users |-> SelectSeq(us, keep),
         ret |-> Len(us) - Len(SelectSeq(us, keep))]

\* CryptoAuth::get_auth: the index of the first matching user, 0 for None
get_auth(us, auth_type, lookup) ==
    LET hit == {i \in 1..Len(us) :
                   \/ auth_type = AuthOne /\ lookup = us[i].password_hash
                   \/ auth_type = AuthTwo /\ lookup = us[i].user_name_hash}
    IN  IF auth_type = AuthZero \/ hit = {} THEN 0
        ELSE CHOOSE i \in hit : \A j \in hit : i <= j

----------------------------------------------------------------------------
(* Inbound                                                                 *)

\* decrypt (line 1377): whether the open of a traffic packet succeeds
decrypt_ok(nonce, pkt, secret, is_initiator) ==
    /\ pkt.len - 4 >= 16
    /\ pkt.key = secret
    /\ pkt.seal = nonce
    /\ pkt.dir = IF is_initiator THEN 0 ELSE 1
\* a decrypt_message that opens the packet without asking the replay protector
decrypt_message_unchecked(m, w, nonce, pkt, secret) ==
    IF ~ decrypt_ok(nonce, pkt, secret, m.is_initiator)
    THEN [rp |-> w, ret |-> "Decrypt"]
    ELSE [rp |-> w, ret |-> "Ok"]

\* SessionMut::decrypt_message
decrypt_message(m, w, nonce, pkt, secret) ==
    IF ~ decrypt_ok(nonce, pkt, secret, m.is_initiator)
    THEN [rp |-> w, ret |-> "Decrypt"]
    ELSE IF ~ check_nonce(w, nonce).ok
    THEN [rp |-> check_nonce(w, nonce).rp, ret |-> "Replay"]
    ELSE [rp |-> check_nonce(w, nonce).rp, ret |-> "Ok"]

\* header.encrypted_temp_key as decrypt_handshake reads it: `header` is the
\* copy of the CryptoHeader that decrypt took from the message (line 545)
\* before decrypt_rnd_nonce opened the message in place (line 939)
header_encrypted_temp_key(pkt) == pkt.etk

\* the match on self.next_nonce for a Key or RepeatKey packet (lines 1003-1047);
\* oc: the build checks arithmetic overflow
key_transition(m, w, nonce, etk, oc) ==
    IF m.next_nonce \in {Init_, ReceivedHello, SentKey}
    THEN [m |-> m, rp |-> w, ret |-> "StrayKey", next_nonce |-> 0]
    ELSE IF m.next_nonce = SentHello
    THEN [m |-> [m EXCEPT !.her_temp_pub_key = etk], rp |-> w, ret |-> "Ok",
          next_nonce |-> ReceivedKey]
    ELSE IF m.next_nonce = ReceivedKey
    THEN IF nonce = NonceKey
         THEN [m |-> [m EXCEPT !.her_temp_pub_key = etk], rp |-> w, ret |-> "Ok",
               next_nonce |-> ReceivedKey]
         ELSE IF m.her_temp_pub_key = etk
         THEN [m |-> m, rp |-> w, ret |-> "Ok", next_nonce |-> ReceivedKey]
         ELSE [m |-> m, rp |-> w, ret |-> "Internal", next_nonce |-> 0]
    ELSE IF m.established
    THEN [m |-> m, rp |-> w, ret |-> "Internal", next_nonce |-> 0]
    ELSE LET m1 == IF nonce = NonceKey
                   THEN [m EXCEPT !.her_temp_pub_key = etk,
                                  !.shared_secret =
                                      get_shared_secret(m.our_temp_priv_key, etk, None)]
                   ELSE m
         IN  IF nonce # NonceKey /\ m.her_temp_pub_key # etk
             THEN [m |-> m, rp |-> w, ret |-> "Internal", next_nonce |-> 0]
             ELSE IF Overflows(m.next_nonce, 1) /\ oc
             THEN [m |-> m1, rp |-> w, ret |-> "Panic", next_nonce |-> 0]
             ELSE [m |-> m1, rp |-> w, ret |-> "Ok",
                   next_nonce |-> m.next_nonce + 1]

\* a match on self.next_nonce that lets a repeated hello with the known key
\* through in every state
hello_transition_tolerant(m, w, etk, s) ==
    IF m.her_temp_pub_key # etk
    THEN IF m.next_nonce = SentHello
         THEN IF PubLess(m.her_public_key, PubKey(PermPriv(s)))
              THEN [m |-> [reset(m) EXCEPT !.her_temp_pub_key = etk], rp |-> RpNew,
                    ret |-> "Ok", next_nonce |-> ReceivedHello]
              ELSE [m |-> m, rp |-> w, ret |-> "Hold", next_nonce |-> 0]
         ELSE IF m.next_nonce = Init_
         THEN [m |-> [m EXCEPT !.her_temp_pub_key = etk], rp |-> w, ret |-> "Ok",
               next_nonce |-> ReceivedHello]
         ELSE [m |-> [reset(m) EXCEPT !.her_temp_pub_key = etk], rp |-> RpNew,
               ret |-> "Ok", next_nonce |-> ReceivedHello]
    ELSE [m |-> m, rp |-> w, ret |-> "Hold", next_nonce |-> 0]

\* the match on self.next_nonce for a Hello or RepeatHello packet
\* (lines 1048-1104); ret "Hold" is the early return Ok(()) of line 1076
hello_transition(m, w, etk, s) ==
    IF m.her_temp_pub_key # etk
    THEN IF m.next_nonce = SentHello
         THEN IF PubLess(m.her_public_key, PubKey(PermPriv(s)))
              THEN [m |-> [reset(m) EXCEPT !.her_temp_pub_key = etk], rp |-> RpNew,
                    ret |-> "Ok", next_nonce |-> ReceivedHello]
              ELSE [m |-> m, rp |-> w, ret |-> "Hold", next_nonce |-> 0]
         ELSE IF m.next_nonce = Init_
         THEN [m |-> [m EXCEPT !.her_temp_pub_key = etk], rp |-> w, ret |-> "Ok",
               next_nonce |-> ReceivedHello]
         ELSE [m |-> [reset(m) EXCEPT !.her_temp_pub_key = etk], rp |-> RpNew,
               ret |-> "Ok", next_nonce |-> ReceivedHello]
    ELSE IF m.next_nonce \in {ReceivedHello, SentKey}
         THEN [m |-> m, rp |-> w, ret |-> "Ok", next_nonce |-> m.next_nonce]
         ELSE [m |-> m, rp |-> w, ret |-> "InvalidPacket", next_nonce |-> 0]

\* checks that let a packet without credentials through whatever
\* require_auth says
handshake_checks_open(m, nonce, pkt, us, s) ==
    LET u == get_auth(us, pkt.auth_type, pkt.lookup)
        password_hash == IF u # 0 THEN us[u].secret ELSE None
        shared_secret ==
            IF ULt(nonce, NonceKey)
            THEN get_shared_secret(PermPriv(s), m.her_public_key, password_hash)
            ELSE get_shared_secret(m.our_temp_priv_key, m.her_public_key,
                                   password_hash)
        etk == header_encrypted_temp_key(pkt)
    IN  IF pkt.len < CryptoHeaderSize THEN "Runt"
        ELSE IF m.her_public_key # pkt.pk THEN "WrongPermPubkey"
        ELSE IF ULt(m.next_nonce, ReceivedHello) # IsZero(m.her_temp_pub_key)
        THEN "Internal"
        ELSE IF /\ u # 0
                /\ us[u].restricted_to_ip6 # None
                /\ us[u].restricted_to_ip6 # Ip6Of(m.her_public_key)
        THEN "IpRestricted"
        ELSE IF u = 0 /\ pkt.auth_type # AuthZero THEN "UnrecognizedAuth"
        ELSE IF ULe(NonceKey, nonce) /\ nonce # NonceKey /\ nonce # NonceRepeatKey
        THEN "Internal"
        ELSE IF ULe(NonceKey, nonce) /\ ~ m.is_initiator THEN "StrayKey"
        ELSE IF pkt.len - (CryptoHeaderSize - 48) < 16 \/ pkt.key # shared_secret
        THEN "HandshakeDecryptFailed"
        ELSE IF IsZero(etk) THEN "Wiseguy"
        ELSE IF nonce = NonceHello /\ m.her_temp_pub_key = etk
        THEN "InvalidPacket"
        ELSE IF /\ nonce = NonceKey
                /\ ULe(ReceivedKey, m.next_nonce)
                /\ m.her_temp_pub_key = etk
        THEN "InvalidPacket"
        ELSE IF /\ nonce = NonceRepeatKey
                /\ ULe(ReceivedKey, m.next_nonce)
                /\ m.her_temp_pub_key # etk
        THEN "InvalidPacket"
        ELSE "Ok"

\* the checks of decrypt_handshake that come before the state transition
\* (lines 812-987): the error returned, or "Ok"
handshake_checks(m, nonce, pkt, us, s) ==
    LET u == get_auth(us, pkt.auth_type, pkt.lookup)
        password_hash == IF u # 0 THEN us[u].secret ELSE None
        shared_secret ==
            IF ULt(nonce, NonceKey)
            THEN get_shared_secret(PermPriv(s), m.her_public_key, password_hash)
            ELSE get_shared_secret(m.our_temp_priv_key, m.her_public_key,
                                   password_hash)
        etk == header_encrypted_temp_key(pkt)
    IN  IF pkt.len < CryptoHeaderSize THEN "Runt"
        ELSE IF m.her_public_key # pkt.pk THEN "WrongPermPubkey"
        ELSE IF ULt(m.next_nonce, ReceivedHello) # IsZero(m.her_temp_pub_key)
        THEN "Internal"
        ELSE IF /\ u # 0
                /\ us[u].restricted_to_ip6 # None
                /\ us[u].restricted_to_ip6 # Ip6Of(m.her_public_key)
        THEN "IpRestricted"
        ELSE IF m.require_auth /\ u = 0 THEN "AuthRequired"
        ELSE IF u = 0 /\ pkt.auth_type # AuthZero THEN "UnrecognizedAuth"
        ELSE IF ULe(NonceKey, nonce) /\ nonce # NonceKey /\ nonce # NonceRepeatKey
        THEN "Internal"
        ELSE IF ULe(NonceKey, nonce) /\ ~ m.is_initiator THEN "StrayKey"
        ELSE IF pkt.len - (CryptoHeaderSize - 48) < 16 \/ pkt.key # shared_secret
        THEN "HandshakeDecryptFailed"
        ELSE IF IsZero(etk) THEN "Wiseguy"
        ELSE IF nonce = NonceHello /\ m.her_temp_pub_key = etk
        THEN "InvalidPacket"
        ELSE IF /\ nonce = NonceKey
                /\ ULe(ReceivedKey, m.next_nonce)
                /\ m.her_temp_pub_key = etk
        THEN "InvalidPacket"
        ELSE IF /\ nonce = NonceRepeatKey
                /\ ULe(ReceivedKey, m.next_nonce)
                /\ m.her_temp_pub_key # etk
        THEN "InvalidPacket"
        ELSE "Ok"

\* SessionMut::decrypt_handshake
decrypt_handshake(m, w, nonce, pkt, us, s, oc) ==
    LET chk == handshake_checks(m, nonce, pkt, us, s)
        etk == header_encrypted_temp_key(pkt)
        tr == IF ULe(NonceKey, nonce)
              THEN key_transition(m, w, nonce, etk, oc)
              ELSE hello_transition(m, w, etk, s)
    IN  IF chk # "Ok" THEN [m |-> m, rp |-> w, ret |-> chk]
        ELSE IF tr.ret = "Hold" THEN [m |-> m, rp |-> w, ret |-> "Ok"]
        ELSE IF tr.ret # "Ok" THEN [m |-> tr.m, rp |-> tr.rp, ret |-> tr.ret]
        ELSE IF ~ (\/ ULt(tr.m.next_nonce, tr.next_nonce)
                   \/ /\ ULe(tr.m.next_nonce, ReceivedKey)
                      /\ tr.next_nonce = tr.m.next_nonce)
        THEN [m |-> tr.m, rp |-> tr.rp, ret |-> "Internal"]
        ELSE [m |-> [tr.m EXCEPT !.next_nonce = tr.next_nonce], rp |-> RpNew,
              ret |-> "Ok"]

\* the first-traffic path of decrypt (lines 553-590)
decrypt_first_traffic(m, w, nonce, pkt, t, oc) ==
    LET secret == get_shared_secret(m.our_temp_priv_key, m.her_temp_pub_key, None)
        r == decrypt_message(m, w, nonce, pkt, secret)
    IN  IF ULt(m.next_nonce, SentKey) THEN [m |-> m, rp |-> w, ret |-> "NoSession"]
        ELSE IF Overflows(nonce, 1) /\ oc THEN [m |-> m, rp |-> r.rp, ret |-> "Panic"]
        ELSE IF r.ret # "Ok"
        THEN [m |-> m, rp |-> RpInit(nonce + 1), ret |-> r.ret]
        ELSE IF Overflows(m.next_nonce, 3) /\ oc
        THEN [m |-> [m EXCEPT !.shared_secret = secret, !.established = TRUE],
              rp |-> RpInit(nonce + 1), ret |-> "Panic"]
        ELSE [m |-> [m EXCEPT !.shared_secret = secret,
                              !.established = TRUE,
                              !.next_nonce = m.next_nonce + 3,
                              !.time_of_last_packet = t],
              rp |-> RpInit(nonce + 1), ret |-> "Ok"]

\* SessionMut::decrypt: the session, the replay protector and the value
\* returned; the message is aligned and has the padding decrypt asks for
decrypt(m, w, pkt, us, s, t, oc) ==
    LET nonce == to_be(pkt.nonce)
    IN  IF pkt.len < 20 THEN [m |-> m, rp |-> w, ret |-> "Runt"]
        ELSE IF pkt.len < CryptoHeaderSize
        THEN [m |-> m, rp |-> w, ret |-> "Internal"]
        ELSE IF ~ m.established
        THEN IF ULe(FirstTrafficPacket, nonce)
             THEN decrypt_first_traffic(m, w, nonce, pkt, t, oc)
             ELSE decrypt_handshake(m, w, nonce, pkt, us, s, oc)
        ELSE IF ULe(FirstTrafficPacket, nonce)
        THEN LET r == decrypt_message(m, w, nonce, pkt, m.shared_secret)
             IN  IF r.ret = "Ok"
                 THEN [m |-> [m EXCEPT !.time_of_last_packet = t],
                       rp |-> r.rp, ret |-> "Ok"]
                 ELSE [m |-> m, rp |-> r.rp, ret |-> r.ret]
        ELSE IF ULe(nonce, NonceRepeatHello)
        THEN decrypt_handshake(m, w, nonce, pkt, us, s, oc)
        ELSE [m |-> m, rp |-> w, ret |-> "KeyPktEstablishedSession"]

----------------------------------------------------------------------------
(* The SessionMut lock and the threads inside encrypt                      *)

\* RwLock::new, and the lock after its guard is dropped: nobody holds it
Unlocked == [mode |-> "free", holder |-> "none"]

\* RwLock::write: thread t holds the lock alone
write(t) == [mode |-> "write", holder |-> t]
\* a downgrade that lets go of the lock altogether
downgrade_released(l) == Unlocked

\* RwLockWriteGuard::downgrade_to_upgradable (line 511): the holder keeps the
\* lock, readers may come in, writers and upgradable readers may not
downgrade_to_upgradable(l) == [l EXCEPT !.mode = "upgradable"]

\* RwLock::upgradable_read by thread t (parking_lot): it is granted once no
\* writer and no other upgradable reader holds the lock, and until then the
\* caller is blocked; plain readers do not stand in its way
upgradable_read_granted(l) == l.mode = "free"
upgradable_read(t) == [mode |-> "upgradable", holder |-> t]

\* a thread outside encrypt that has emitted nothing
IdleThread == [pc |-> "idle", seal |-> 0, payload |-> 0, prefix |-> {}, dup |-> FALSE]

\* The two exchanges followed between the sessions A and B, as the calls made
\* in order: <<"e", s, k>> is s.encrypt of an empty message (k = 0) or of a
\* payload (k = 1), <<"d", s, 0>> is s.decrypt of the packet in flight to s.
Four ==
    << <<"e", "A", 0>>, <<"d", "B", 0>>, <<"e", "B", 0>>, <<"d", "A", 0>>,
       <<"e", "A", 1>>, <<"d", "B", 0>>, <<"e", "A", 1>>, <<"d", "B", 0>> >>

\* crossed hellos, then the key of B and a payload each way
Cross ==
    << <<"e", "A", 0>>, <<"e", "B", 0>>, <<"d", "B", 0>>, <<"d", "A", 0>>,
       <<"e", "B", 0>>, <<"d", "A", 0>>, <<"e", "A", 1>>, <<"d", "B", 0>>,
       <<"e", "B", 1>>, <<"d", "A", 0>> >>

\* the position of a run that has left an exchange
OffScript == Len(Four) + Len(Cross)

\* the position in the exchange seq after the call op on s with payload
Follow(i, seq, op, s, payload) ==
    IF i >= Len(seq) THEN OffScript
    ELSE IF /\ seq[i + 1][1] = op
            /\ seq[i + 1][2] = s
            /\ (op = "e") => ((seq[i + 1][3] = 0) = (payload = 0))
    THEN i + 1
    ELSE OffScript

\* no call made yet in either of the two exchanges; want is the payload of
\* the last encrypt
NoScript == [four |-> 0, cross |-> 0, want |-> 0]

NextScript(sc, op, s, payload) ==
    [four |-> Follow(sc.four, Four, op, s, payload),
     cross |-> Follow(sc.cross, Cross, op, s, payload),
     want |-> IF op = "e" THEN payload ELSE sc.want]

----------------------------------------------------------------------------
(* The environment: what the callers pass in                               *)

Payloads == {0, 1, 2}
Passwords == {None, <<1>>}
Logins == {None, <<1>>}
Ip6s == {None, Ip6Of(PubKey(PermPriv("B"))), Ip6Of(PubKey(7))}
Threads == {"t1", "t2"}
\* what add_user and remove_users are called with: two passwords, no login or
\* one of two, no address or one
UserPasswords == {<<1>>, <<2>>}
UserLogins == {None, <<1>>, <<2>>}
UserIp6s == {None, Ip6Of(PubKey(PermPriv("B")))}

\* the counter values the model follows: the first ones and the last ones
Followed(n) ==
    IF ULe(n, ReceivedKey + 3 + MaxTraffic) THEN TRUE ELSE ULe(MAX_NONCE - 1, n)

\* the secret a traffic packet must be sealed with for session m to open it
AcceptKey(m) ==
    IF m.established THEN m.shared_secret
    ELSE get_shared_secret(m.our_temp_priv_key, m.her_temp_pub_key, None)

\* the secret a handshake packet must be sealed with for session m of
\* context s to open it, the sender claiming the user with secret h
HandshakeKey(m, s, nonce, h) ==
    IF ULt(nonce, NonceKey)
    THEN get_shared_secret(PermPriv(Peer(s)), PubKey(PermPriv(s)), h)
    ELSE get_shared_secret(PermPriv(Peer(s)), m.our_temp_pub_key, h)

\* bytes a sender may leave on the wire at encrypted_temp_key
WireKeys(m) == {Zero, PubKey(91), PubKey(92), m.her_temp_pub_key}

\* well sealed handshake packets with a nonce of ns that a peer of session m
\* may deliver, without a password and with the password of each known user
HandshakeInputs(m, us, s, ns) ==
    UNION {
        {HandshakePacket(to_be(n), AuthZero, None, 0, m.her_public_key,
                         HandshakeKey(m, s, n, None), k, <<9>> \o k, 0)
            : k \in WireKeys(m)}
        \cup {HandshakePacket(to_be(n), a, IF a = AuthOne
                                           THEN us[i].password_hash
                                           ELSE us[i].user_name_hash,
                              0, m.her_public_key,
                              HandshakeKey(m, s, n, us[i].secret), PubKey(91),
                              <<9, 1, 91>>, 0)
                : a \in {AuthOne, AuthTwo}, i \in 1..Len(us)}
        : n \in ns}

\* handshake packets decrypt cannot open or does not want: one sealed with
\* another secret, one of another permanent key, one with an unknown password
BadHandshakeInputs(m, s, n) ==
    {HandshakePacket(to_be(n), AuthZero, None, 0, m.her_public_key,
                     Zero, PubKey(91), <<9, 1, 91>>, 0),
     HandshakePacket(to_be(n), AuthZero, None, 0, PubKey(7),
                     HandshakeKey(m, s, n, None), PubKey(91), <<9, 1, 91>>, 0),
     HandshakePacket(to_be(n), AuthOne, <<8, 0>>, 0, m.her_public_key,
                     HandshakeKey(m, s, n, None), PubKey(91), <<9, 1, 91>>, 0)}

\* traffic packets with a nonce of ns that a peer of session m may deliver:
\* a long and a short one well sealed, one sealed for the other direction,
\* one sealed with another secret
TrafficInputs(m, ns) ==
    UNION {
        {TrafficPacket(to_be(n), n, IF m.is_initiator THEN 0 ELSE 1,
                       AcceptKey(m), 2),
         TrafficPacket(to_be(n), n, IF m.is_initiator THEN 0 ELSE 1,
                       AcceptKey(m), 1),
         TrafficPacket(to_be(n), n, IF m.is_initiator THEN 1 ELSE 0,
                       AcceptKey(m), 2),
         TrafficPacket(to_be(n), n, IF m.is_initiator THEN 0 ELSE 1, Zero, 2)}
        : n \in ns}

\* a message shorter than any packet
RuntInput == [TrafficPacket(0, 0, 0, Zero, 0) EXCEPT !.len = 12]

\* nonces of the traffic packets delivered to an established session: some
\* within one window of each other, one a window further
ReplayNonces ==
    {FirstTrafficPacket, FirstTrafficPacket + 1, FirstTrafficPacket + 2,
     FirstTrafficPacket + 1 + ReplayWindow, U32_MAX}

\* the well sealed traffic packet with nonce n for session m
TrafficInput(m, n) ==
    TrafficPacket(to_be(n), n, IF m.is_initiator THEN 0 ELSE 1, AcceptKey(m), 2)

\* what a peer may deliver to a session that sets up, resets and times out:
\* any well sealed packet
Inputs(m, us, s) ==
    HandshakeInputs(m, us, s, NonceHello..NonceRepeatKey)
        \cup {TrafficInput(m, FirstTrafficPacket)}

\* what a peer may deliver to make decrypt fail
ErrorInputs(m, us, s) ==
    HandshakeInputs(m, us, s, NonceHello..NonceRepeatKey)
        \cup BadHandshakeInputs(m, s, NonceHello)
        \cup TrafficInputs(m, {FirstTrafficPacket}) \cup {RuntInput}

\* Hellos whose sender's temporary key is the value session m has stored,
\* sealed afresh; none once the stored value is itself the bytes of such a
\* Hello
SameKeyInputs(m, s) ==
    LET key == HandshakeKey(m, s, NonceHello, None)
    IN  IF Len(m.her_temp_pub_key) # Len(PubKey(0)) THEN {}
        ELSE {HandshakePacket(to_be(NonceHello), AuthZero, None, 0,
                              m.her_public_key, key,
                              Ciphertext(0, m.her_temp_pub_key, key),
                              m.her_temp_pub_key, 0)}

\* well sealed handshake packets with nonce n whose sender's temporary key is
\* all zero
ZeroKeyInput(m, s, n) ==
    LET key == HandshakeKey(m, s, n, None)
    IN  HandshakePacket(to_be(n), AuthZero, None, 0, m.her_public_key,
                        key, Ciphertext(0, Zero, key), Zero, 0)

\* a Hello of a sender that names login and knows password, sealed as
\* encrypt_handshake seals it for auth_type Two
LoginInput(m, s, login, password) ==
    LET hp == hash_password(login, password, AuthTwo)
        key == HandshakeKey(m, s, NonceHello, hp.secret)
    IN  HandshakePacket(to_be(NonceHello), AuthTwo, hp.challenge.lookup, 0,
                        m.her_public_key, key, PubKey(91), <<9, 1, 91>>, 0)

\* a packet of 28 bytes with nonce n, sealed as traffic for session m
ShortInput(m, n) ==
    TrafficPacket(to_be(n), n, IF m.is_initiator THEN 0 ELSE 1, AcceptKey(m), 1)

\* what a peer may deliver to a session set up with or without required
\* authentication: packets well sealed and not, with and without
\* credentials, with a known, a new and a zero key
ShakeInputs(m, us, s) ==
    HandshakeInputs(m, us, s, NonceHello..NonceRepeatKey)
        \cup BadHandshakeInputs(m, s, NonceHello)
        \cup SameKeyInputs(m, s)
        \cup {ZeroKeyInput(m, s, n) : n \in {NonceHello, NonceKey}}
        \cup {LoginInput(m, s, l, p) : l \in {<<1>>, <<2>>}, p \in UserPasswords}
        \cup TrafficInputs(m, {FirstTrafficPacket})
        \cup {ShortInput(m, NonceKey), RuntInput}

\* what a peer may deliver to a session whose traffic it repeats
ReplayInputs(m, us, s) ==
    {p \in HandshakeInputs(m, us, s, {NonceHello, NonceKey}) :
        p.etk = PubKey(91)}
        \cup TrafficInputs(m, ReplayNonces)

\* what a peer may deliver to a session whose counter is about to wrap
WrapInputs(m, us, s) ==
    {p \in HandshakeInputs(m, us, s, {NonceKey, NonceRepeatKey}) : p.etk # Zero}
        \cup {TrafficInput(m, n) : n \in {FirstTrafficPacket, U32_MAX}}

----------------------------------------------------------------------------
(* Calls on one session                                                    *)

\* What a call returned.  nonce: the prefix encrypt emitted (for add_user:
\* the login it was given); out: the content decrypt left in the message
\* (sets of at most one element).  prev: for encrypt, the prefix the previous
\* encrypt emitted if the session was not reset since.  seen: decrypt was
\* given a nonce it had accepted since the session was established; opens:
\* the packet given to decrypt is long enough and sealed for this session.
\* wrap: encrypt found the counter at MAX_NONCE or above.
Called(op, ret, nonce, out) ==
    [op |-> op, ret |-> ret, nonce |-> nonce, out |-> out, prev |-> {},
     seen |-> FALSE, opens |-> FALSE, wrap |-> FALSE]

\* the prefix of the packet a call of encrypt emitted, as a set
Prefix(pkts) == {to_be(q.nonce) : q \in pkts}

\* whether a call that took the session from m to n reset it on the way: only
\* reset zeroes our_temp_priv_key, and a session whose our_temp_priv_key is
\* zero has emitted nothing since it was reset
WasReset(m, n) == m.our_temp_priv_key # 0 /\ n.our_temp_priv_key = 0

\* whether encrypt resets the session before anything else (lines 472-488)
EncryptResets(m, t) ==
    IF TimedOut(m, t) THEN TRUE ELSE ULe(MAX_NONCE, reset_if_timeout(m, t).next_nonce)

\* whether the counter of m is at one of the values at which encrypt resets
AtWrap(m) == ULe(MAX_NONCE, m.next_nonce)

\* lastPrefix after decrypt took the session from m to n
NextPrefix(last, m, n) ==
    IF WasReset(m, n) THEN {}
    ELSE IF AtWrap(m) THEN {}
    ELSE IF AtWrap(n) THEN {}
    ELSE last

\* accepted after decrypt took the session from m to n, returning ret for
\* nonce
NextAccepted(acc, m, n, ret, nonce) ==
    IF ~ n.established THEN {}
    ELSE IF m.established /\ ret = "Ok" /\ ULe(FirstTrafficPacket, nonce)
    THEN acc \cup {nonce}
    ELSE acc

\* Session::encrypt on session s, but for the variables of the two-party
\* exchange and of the lock
EncryptCall(s, payload) ==
    LET m == sess[s]
        e == encrypt(m, payload, s, rng[s] + 1, now)
        drew == \E q \in e.pkts : q.hn > 0
        prev == IF EncryptResets(m, now) THEN {} ELSE lastPrefix[s]
    IN  /\ Followed(e.m.next_nonce)
        /\ IF drew THEN rng[s] < MaxRand ELSE TRUE
        /\ sess' = [sess EXCEPT ![s] = e.m]
        /\ rng' = [rng EXCEPT ![s] = IF drew THEN @ + 1 ELSE @]
        /\ result' = [result EXCEPT ![s] =
               [Called("encrypt", e.ret, Prefix(e.pkts), {})
                   EXCEPT !.prev = prev,
                          !.wrap = AtWrap(reset_if_timeout(m, now))]]
        /\ lastPrefix' = [lastPrefix EXCEPT ![s] =
               IF e.pkts # {} THEN Prefix(e.pkts) ELSE prev]
        /\ accepted' = [accepted EXCEPT ![s] = IF e.m.established THEN @ ELSE {}]
        /\ UNCHANGED <<rp, users, now>>

\* Session::decrypt on session s, but for the variables of the two-party
\* exchange and of the lock; oc: the build checks arithmetic overflow, which
\* matters only where a counter is at its last values
DecryptNoting(s, pkt, oc, note) ==
    LET m == sess[s]
        d == decrypt(m, rp[s], pkt, users[s], s, now, oc)
        nonce == to_be(pkt.nonce)
    IN  /\ Followed(d.m.next_nonce)
        /\ IF oc THEN ~ (m.next_nonce >= 0 /\ nonce >= 0) ELSE TRUE
        /\ sess' = [sess EXCEPT ![s] = d.m]
        /\ rp' = [rp EXCEPT ![s] = d.rp]
        /\ result' = [result EXCEPT ![s] =
               [Called("decrypt", d.ret, IF note THEN {nonce} ELSE {},
                       IF d.ret = "Ok" THEN {pkt.content} ELSE {})
                   EXCEPT !.seen = nonce \in accepted[s],
                          !.opens = /\ pkt.len >= CryptoHeaderSize
                                    /\ decrypt_ok(nonce, pkt, AcceptKey(m),
                                                  m.is_initiator)]]
        /\ lastPrefix' = [lastPrefix EXCEPT ![s] = NextPrefix(@, m, d.m)]
        /\ accepted' = [accepted EXCEPT ![s] =
               NextAccepted(@, m, d.m, d.ret, nonce)]
        /\ UNCHANGED <<users, rng, now>>

\* Session::decrypt on session s, the nonce of the packet not kept
DecryptCall(s, pkt, oc) == DecryptNoting(s, pkt, oc, FALSE)

\* Session::reset on session s, but for the variables of the lock
ResetCall(s) ==
    /\ sess' = [sess EXCEPT ![s] = reset(@)]
    /\ rp' = [rp EXCEPT ![s] = RpNew]
    /\ result' = [result EXCEPT ![s] =
           [Called("reset", "Ok", {}, {}) EXCEPT !.prev = {get_state(sess[s])}]]
    /\ lastPrefix' = [lastPrefix EXCEPT ![s] = {}]
    /\ accepted' = [accepted EXCEPT ![s] = {}]
    /\ UNCHANGED <<users, rng, now>>

\* what is left alone by every call outside the two-party exchange and the
\* lock steps
Alone == UNCHANGED <<net, script, threads, lock, emitted>>

\* Session::encrypt
Encrypt(s, payload) == EncryptCall(s, payload) /\ Alone

\* Session::encrypt called again and again in the traffic phase, with no
\* other call in between, until the counter is MAX_NONCE - 1
EncryptMany(s) ==
    LET m == sess[s]
    IN  /\ ULt(ReceivedKey, m.next_nonce)
        /\ ULt(m.next_nonce, MAX_NONCE - 1)
        /\ ~ TimedOut(m, now)
        /\ sess' = [sess EXCEPT ![s].next_nonce = MAX_NONCE - 1]
        /\ result' = [result EXCEPT ![s] =
               [Called("encrypt", "Ok", {MAX_NONCE - 2}, {})
                   EXCEPT !.prev = {MAX_NONCE - 3}]]
        /\ lastPrefix' = [lastPrefix EXCEPT ![s] = {MAX_NONCE - 2}]
        /\ UNCHANGED <<rp, users, rng, now, accepted>>
        /\ Alone

\* Session::decrypt of a delivered packet
Decrypt(s, pkt, oc) == DecryptCall(s, pkt, oc) /\ Alone

\* Session::decrypt of a delivered packet, the nonce of the packet kept in
\* what the call returned
Deliver(s, pkt) == DecryptNoting(s, pkt, FALSE, TRUE) /\ Alone

\* Session::reset
Reset(s) == ResetCall(s) /\ Alone

\* Session::reset_if_timeout
ResetIfTimeout(s) ==
    /\ sess' = [sess EXCEPT ![s] = reset_if_timeout(@, now)]
    /\ result' = [result EXCEPT ![s] = Called("reset_if_timeout", "Ok", {}, {})]
    /\ lastPrefix' = [lastPrefix EXCEPT ![s] =
           IF TimedOut(sess[s], now) THEN {} ELSE @]
    /\ accepted' = [accepted EXCEPT ![s] = IF TimedOut(sess[s], now) THEN {} ELSE @]
    /\ UNCHANGED <<rp, users, rng, now>>
    /\ Alone

\* Session::set_auth
SetAuth(s, password, login) ==
    /\ sess' = [sess EXCEPT ![s] = set_auth(@, password, login)]
    /\ result' = [result EXCEPT ![s] = Called("set_auth", "Ok", {}, {})]
    /\ lastPrefix' = [lastPrefix EXCEPT ![s] =
           IF sess'[s] # sess[s] THEN {} ELSE @]
    /\ accepted' = [accepted EXCEPT ![s] = IF sess'[s].established THEN @ ELSE {}]
    /\ UNCHANGED <<rp, users, rng, now>>
    /\ Alone

\* CryptoAuth::add_user_ipv6 on the context of s
AddUser(s, password, login, ipv6) ==
    LET a == add_user_ipv6(users[s], password, login, ipv6)
    IN  /\ Len(a.users) <= MaxUsers
        /\ users' = [users EXCEPT ![s] = a.users]
        /\ result' = [result EXCEPT ![s] =
               Called("add_user", a.ret, IF login = None THEN {} ELSE {login[1]}, {})]
        /\ UNCHANGED <<sess, rp, rng, now, lastPrefix, accepted>>
        /\ Alone

\* CryptoAuth::remove_users on the context of s
RemoveUsers(s, login) ==
    /\ users' = [users EXCEPT ![s] = remove_users(@, login).users]
    /\ result' = [result EXCEPT ![s] = Called("remove_users", "Ok", {}, {})]
    /\ UNCHANGED <<sess, rp, rng, now, lastPrefix, accepted>>
    /\ Alone

\* the clock of the EventBase advances
Tick ==
    /\ now < MaxTicks * TickSeconds
    /\ now' = now + TickSeconds
    /\ UNCHANGED <<sess, rp, users, rng, result, lastPrefix, accepted>>
    /\ Alone

\* two contexts with one session each, created at time 0, nothing sent
Init ==
    /\ now = 0
    /\ sess = [s \in Sessions |-> NewSession(s, FALSE, 0)]
    /\ rp = [s \in Sessions |-> RpNew]
    /\ users = [s \in Sessions |-> <<>>]
    /\ rng = [s \in Sessions |-> 0]
    /\ net = {}
    /\ result = [s \in Sessions |-> Called("new", "Ok", {}, {})]
    /\ lastPrefix = [s \in Sessions |-> {}]
    /\ accepted = [s \in Sessions |-> {}]
    /\ script = NoScript
    /\ threads = [t \in Threads |-> IdleThread]
    /\ lock = Unlocked
    /\ emitted = {}

\* one session that sets up, resets and times out, and a peer that may
\* deliver any packet
Next ==
    \/ \E payload \in Payloads : Encrypt("A", payload)
    \/ \E pkt \in Inputs(sess["A"], users["A"], "A") : Decrypt("A", pkt, FALSE)
    \/ Reset("A")
    \/ ResetIfTimeout("A")
    \/ \E password \in Passwords : SetAuth("A", password, None)
    \/ Tick

Spec == Init /\ [][Next]_vars

\* two contexts with one session each, session A created with or without
\* require_auth
InitShake ==
    /\ now = 0
    /\ \E require_auth \in BOOLEAN :
           sess = [s \in Sessions |->
                      NewSession(s, IF s = "A" THEN require_auth ELSE FALSE, 0)]
    /\ rp = [s \in Sessions |-> RpNew]
    /\ users = [s \in Sessions |-> <<>>]
    /\ rng = [s \in Sessions |-> 0]
    /\ net = {}
    /\ result = [s \in Sessions |-> Called("new", "Ok", {}, {})]
    /\ lastPrefix = [s \in Sessions |-> {}]
    /\ accepted = [s \in Sessions |-> {}]
    /\ script = NoScript
    /\ threads = [t \in Threads |-> IdleThread]
    /\ lock = Unlocked
    /\ emitted = {}

\* one session, its context registering a user at some point, and a peer
\* that may deliver any packet, well sealed or not
NextShake ==
    \/ Encrypt("A", 2)
    \/ \E pkt \in ShakeInputs(sess["A"], users["A"], "A") : Deliver("A", pkt)
    \/ /\ users["A"] = << >>
       /\ AddUser("A", <<1>>, <<1>>, None)

SpecShake == InitShake /\ [][NextShake]_vars

\* one context whose registry of users is filled and emptied
NextUsers ==
    \/ \E password \in UserPasswords, login \in UserLogins, ipv6 \in UserIp6s :
           AddUser("A", password, login, ipv6)
    \/ \E login \in UserLogins : RemoveUsers("A", login)

SpecUsers == Init /\ [][NextUsers]_vars

\* what a peer may deliver to a session that is left idle: a Hello, a Key and
\* a first traffic packet, well sealed
IdleInputs(m, us, s) ==
    {p \in HandshakeInputs(m, us, s, {NonceHello, NonceKey}) :
        p.etk = PubKey(91)}
        \cup {TrafficInput(m, FirstTrafficPacket)}

\* the clock of the EventBase advances by d seconds
Wait(d) ==
    /\ now + d <= MaxTicks * DEFAULT_SETUP_RESET_AFTER_INACTIVITY_SECONDS
    /\ now' = now + d
    /\ UNCHANGED <<sess, rp, users, rng, result, lastPrefix, accepted>>
    /\ Alone

\* one session that is left idle for a second or for a second less than the
\* setup timeout, once or more, at any point of a handshake
NextIdle ==
    \/ Encrypt("A", 2)
    \/ \E pkt \in IdleInputs(sess["A"], users["A"], "A") : Decrypt("A", pkt, FALSE)
    \/ \E d \in {1, DEFAULT_SETUP_RESET_AFTER_INACTIVITY_SECONDS - 1} : Wait(d)

SpecIdle == Init /\ [][NextIdle]_vars

\* one session that is left idle for half a minute or more at any point of a
\* handshake, its owner calling reset_if_timeout now and then
NextTimeout ==
    \/ Encrypt("A", 2)
    \/ \E pkt \in IdleInputs(sess["A"], users["A"], "A") : Decrypt("A", pkt, FALSE)
    \/ ResetIfTimeout("A")
    \/ Tick

SpecTimeout == Init /\ [][NextTimeout]_vars

\* one session that is reset and given credentials at any point of a
\* handshake, the clock standing still
NextReset ==
    \/ \E payload \in Payloads : Encrypt("A", payload)
    \/ \E pkt \in Inputs(sess["A"], users["A"], "A") : Decrypt("A", pkt, FALSE)
    \/ Reset("A")
    \/ \E password \in Passwords, login \in Logins : SetAuth("A", password, login)

SpecReset == Init /\ [][NextReset]_vars

\* one session and a peer that repeats traffic packets
NextReplay ==
    \/ \E payload \in Payloads : Encrypt("A", payload)
    \/ \E pkt \in ReplayInputs(sess["A"], users["A"], "A") : Decrypt("A", pkt, FALSE)
    \/ Reset("A")

SpecReplay == Init /\ [][NextReplay]_vars

\* one session that encrypts until its counter is about to wrap
NextWrap ==
    \/ \E payload \in Payloads \ {0} : Encrypt("A", payload)
    \/ EncryptMany("A")
    \/ Reset("A")
    \/ \E pkt \in WrapInputs(sess["A"], users["A"], "A"), oc \in BOOLEAN :
           Decrypt("A", pkt, oc)

SpecWrap == Init /\ [][NextWrap]_vars

----------------------------------------------------------------------------
(* encrypt_rnd_nonce and decrypt_rnd_nonce on a message                    *)

\* a Message: its bytes and the padding in front of them
Message(bytes, pad) == [bytes |-> bytes, pad |-> pad]

\* seal_precomputed: the 16 bytes of the Poly1305 tag, each standing for the
\* tag over the plain bytes under that nonce and key, then every plain byte
\* under the XSalsa20 stream of that nonce and key
seal_precomputed(bytes, nonce, key) ==
    [i \in 1..16 |-> <<7, nonce>> \o key \o bytes]
        \o [i \in 1..Len(bytes) |-> <<bytes[i], nonce>> \o key]

\* open_precomputed: the plain bytes if the stream and the tag are those of
\* that nonce and key
open_precomputed(bytes, nonce, key) ==
    LET body == SubSeq(bytes, 17, Len(bytes))
        plain == [i \in 1..Len(body) |-> body[i][1]]
    IN  IF /\ Len(bytes) >= 16
           /\ \A i \in 1..Len(body) : body[i] = <<plain[i], nonce>> \o key
           /\ \A i \in 1..16 : bytes[i] = <<7, nonce>> \o key \o plain
        THEN [ret |-> "Ok", bytes |-> plain]
        ELSE [ret |-> "Err", bytes |-> << >>]

\* a decrypt_rnd_nonce that drops the tag without verifying it
decrypt_rnd_nonce_unverified(nonce, msg, secret) ==
    LET body == SubSeq(msg.bytes, 17, Len(msg.bytes))
    IN  IF Len(msg.bytes) < 16 THEN [ret |-> "Err", msg |-> msg]
        ELSE [ret |-> "Ok",
              msg |-> Message([i \in 1..Len(body) |-> body[i][1]], msg.pad + 16)]

\* encrypt_rnd_nonce (lines 1395-1413): "Panic" is the expect of line 1405
encrypt_rnd_nonce(nonce, msg, secret) ==
    LET encrypted == seal_precomputed(msg.bytes, nonce, secret)
    IN  IF msg.pad < 16 THEN [ret |-> "Panic", msg |-> msg]
        ELSE [ret |-> "Ok", msg |-> Message(encrypted, msg.pad - 16)]

\* decrypt_rnd_nonce (lines 1418-1441)
decrypt_rnd_nonce(nonce, msg, secret) ==
    LET decrypted == open_precomputed(msg.bytes, nonce, secret)
    IN  IF Len(msg.bytes) < 16 THEN [ret |-> "Err", msg |-> msg]
        ELSE IF decrypted.ret # "Ok" THEN [ret |-> "Err", msg |-> msg]
        ELSE [ret |-> "Ok", msg |-> Message(decrypted.bytes, msg.pad + 16)]

\* what the test is run with: payloads of 0 to 11 bytes, messages with no
\* padding, just enough and plenty, two nonces and two secrets
RndPayloads == {<< >>, <<1>>, <<1, 2>>, <<2, 1, 2, 1, 2, 1, 2, 1, 2, 1, 2>>}
RndPads == {0, 16, 128}
RndNonces == {0, 1}
RndSecrets == {<<6, 0>>, <<6, 1>>}

\* test_encrypt_decrypt_rnd_nonce after the payload was pushed
InitRnd ==
    /\ now = 0
    /\ sess = [s \in Sessions |-> NewSession(s, FALSE, 0)]
    /\ rp = [s \in Sessions |-> RpNew]
    /\ users = [s \in Sessions |-> << >>]
    /\ rng = [s \in Sessions |-> 0]
    /\ net = {}
    /\ result = [s \in Sessions |-> Called("new", "Ok", {}, {})]
    /\ lastPrefix = [s \in Sessions |-> {}]
    /\ accepted = [s \in Sessions |-> {}]
    /\ threads = [t \in Threads |-> IdleThread]
    /\ lock = Unlocked
    /\ emitted = {}
    /\ \E bytes \in RndPayloads, pad \in RndPads, nonce \in RndNonces,
          secret \in RndSecrets :
           script = [stage |-> "pushed", msg |-> Message(bytes, pad),
                     orig |-> bytes, nonce |-> nonce, secret |-> secret,
                     res |-> "none", sealed |-> FALSE,
                     with |-> [nonce |-> nonce, secret |-> secret]]

\* what the test leaves alone
RndAlone ==
    UNCHANGED <<sess, rp, users, rng, now, net, result, lastPrefix, accepted,
                threads, lock, emitted>>

\* the test calls encrypt_rnd_nonce with its nonce and its secret
EncryptRndNonce ==
    LET e == encrypt_rnd_nonce(script.nonce, script.msg, script.secret)
    IN  /\ script.stage = "pushed"
        /\ script' = [script EXCEPT
               !.stage = IF e.ret = "Ok" THEN "encrypted" ELSE "panicked",
               !.msg = e.msg,
               !.sealed = e.ret = "Ok"]
        /\ RndAlone

\* the test calls decrypt_rnd_nonce, with its nonce and its secret or with
\* others, on the message sealed or not
DecryptRndNonce(nonce, secret) ==
    LET d == decrypt_rnd_nonce(nonce, script.msg, secret)
    IN  /\ script.stage \in {"pushed", "encrypted"}
        /\ script' = [script EXCEPT
               !.stage = "decrypted",
               !.msg = d.msg,
               !.res = d.ret,
               !.with = [nonce |-> nonce, secret |-> secret]]
        /\ RndAlone

NextRnd ==
    \/ EncryptRndNonce
    \/ \E nonce \in RndNonces, secret \in RndSecrets :
           DecryptRndNonce(nonce, secret)

SpecRnd == InitRnd /\ [][NextRnd]_vars

----------------------------------------------------------------------------
(* Two sessions that are each other's peer                                 *)

\* s.encrypt, the packet going into flight to the peer
PairEncrypt(s, payload) ==
    LET e == encrypt(sess[s], payload, s, rng[s] + 1, now)
    IN  /\ EncryptCall(s, payload)
        /\ net' = net \cup {[to |-> Peer(s), pkt |-> q] : q \in e.pkts}
        /\ Cardinality(net') <= MaxNet
        /\ script' = NextScript(script, "e", s, payload)
        /\ UNCHANGED <<threads, lock, emitted>>

\* s.decrypt of a packet in flight to s
PairDecrypt(s, x) ==
    /\ x.to = s
    /\ DecryptCall(s, x.pkt, FALSE)
    /\ net' = net \ {x}
    /\ script' = NextScript(script, "d", s, 0)
    /\ UNCHANGED <<threads, lock, emitted>>

NextPair ==
    \/ \E s \in Sessions, payload \in Payloads : PairEncrypt(s, payload)
    \/ \E s \in Sessions, x \in net : PairDecrypt(s, x)

SpecPair == Init /\ [][NextPair]_vars

\* two sessions that exchange handshake packets only: each encrypt is of an
\* empty message
NextCross ==
    \/ \E s \in Sessions : PairEncrypt(s, 0)
    \/ \E s \in Sessions, x \in net : PairDecrypt(s, x)

SpecCross == Init /\ [][NextCross]_vars

\* two contexts with one session each, session B created with or without
\* require_auth
InitAuth ==
    /\ now = 0
    /\ \E require_auth \in BOOLEAN :
           sess = [s \in Sessions |->
                      NewSession(s, IF s = "B" THEN require_auth ELSE FALSE, 0)]
    /\ rp = [s \in Sessions |-> RpNew]
    /\ users = [s \in Sessions |-> <<>>]
    /\ rng = [s \in Sessions |-> 0]
    /\ net = {}
    /\ result = [s \in Sessions |-> Called("new", "Ok", {}, {})]
    /\ lastPrefix = [s \in Sessions |-> {}]
    /\ accepted = [s \in Sessions |-> {}]
    /\ script = NoScript
    /\ threads = [t \in Threads |-> IdleThread]
    /\ lock = Unlocked
    /\ emitted = {}

\* the context of B registers a password, with or without a login, session A
\* is given credentials and sends handshake packets to B
NextAuth ==
    \/ /\ users["B"] = << >>
       /\ \E password \in UserPasswords, login \in Logins :
              AddUser("B", password, login, None)
    \/ /\ sess["A"].password = None
       /\ \E password \in UserPasswords, login \in Logins :
              SetAuth("A", password, login)
    \/ PairEncrypt("A", 0)
    \/ \E x \in net : PairDecrypt("B", x)

SpecAuth == InitAuth /\ [][NextAuth]_vars

\* ---------------------------------------------------------------------
\* The two locks of a Session: the RwLock around SessionMut and the Mutex
\* around the replay protector.  A call is the sequence of lock operations
\* it performs, in the order of the code; which of a call's paths is taken
\* depends on the packet and the session, and is left open here.
\*
\*   encrypt           write (472); a handshake packet or a refused message
\*                     returns there (486, 498, 508, 509); traffic downgrades
\*                     (511), seals, upgrades (520) and returns
\*   decrypt           upgradable_read (529); early returns (531-560, 627);
\*                     final handshake step: decrypt_message (which locks the
\*                     replay protector at 1138 once the packet opened), the
\*                     replay protector again (575), upgrade on success (578);
\*                     handshake packet: upgrade (594, 624), decrypt_handshake
\*                     locks the replay protector at 1066 or 1085 and at 1118;
\*                     traffic: decrypt_message, upgrade on success (604)
\*   reset             write (1245), replay protector (1246); the guards drop
\*                     in reverse order of declaration
\*   reset_if_timeout  write (1238)
\*   set_auth          write (1205)
\*   get_state         read (1209)
\*   stats             replay protector (1226)
\* LockSteps with Session::reset locking the replay protector before the
\* session
LockSteps_mutex_first ==
    [encrypt |->
        {<<"write", "release">>,
         <<"write", "downgrade", "upgrade", "release">>},
     decrypt |->
        {<<"upgradable_read", "release">>,
         <<"upgradable_read", "lock", "unlock", "release">>,
         <<"upgradable_read", "lock", "unlock", "upgrade", "release">>,
         <<"upgradable_read", "lock", "unlock", "lock", "unlock", "release">>,
         <<"upgradable_read", "lock", "unlock", "lock", "unlock", "upgrade",
           "release">>,
         <<"upgradable_read", "upgrade", "release">>,
         <<"upgradable_read", "upgrade", "lock", "unlock", "release">>,
         <<"upgradable_read", "upgrade", "lock", "unlock", "lock", "unlock",
           "release">>},
     reset |-> {<<"lock", "write", "release", "unlock">>},
     reset_if_timeout |-> {<<"write", "release">>},
     set_auth |-> {<<"write", "release">>},
     get_state |-> {<<"read", "release_read">>},
     stats |-> {<<"lock", "unlock">>}]

LockSteps ==
    [encrypt |->
        {<<"write", "release">>,
         <<"write", "downgrade", "upgrade", "release">>},
     decrypt |->
        {<<"upgradable_read", "release">>,
         <<"upgradable_read", "lock", "unlock", "release">>,
         <<"upgradable_read", "lock", "unlock", "upgrade", "release">>,
         <<"upgradable_read", "lock", "unlock", "lock", "unlock", "release">>,
         <<"upgradable_read", "lock", "unlock", "lock", "unlock", "upgrade",
           "release">>,
         <<"upgradable_read", "upgrade", "release">>,
         <<"upgradable_read", "upgrade", "lock", "unlock", "release">>,
         <<"upgradable_read", "upgrade", "lock", "unlock", "lock", "unlock",
           "release">>},
     reset |-> {<<"write", "lock", "unlock", "release">>},
     reset_if_timeout |-> {<<"write", "release">>},
     set_auth |-> {<<"write", "release">>},
     get_state |-> {<<"read", "release_read">>},
     stats |-> {<<"lock", "unlock">>}]

\* No thread is inside a call and both locks are free.  lock is the RwLock's
\* writer or upgradable reader, script.readers its plain readers,
\* script.mutex the holder of the replay protector's Mutex; a thread keeps
\* the operations it has still to do and the locks it holds, in the order
\* it took them.
InitLock ==
    /\ now = 0
    /\ sess = [s \in Sessions |-> NewSession(s, FALSE, 0)]
    /\ rp = [s \in Sessions |-> RpNew]
    /\ users = [s \in Sessions |-> <<>>]
    /\ rng = [s \in Sessions |-> 0]
    /\ net = {}
    /\ result = [s \in Sessions |-> Called("new", "Ok", {}, {})]
    /\ lastPrefix = [s \in Sessions |-> {}]
    /\ accepted = [s \in Sessions |-> {}]
    /\ script = [readers |-> {}, mutex |-> "none"]
    /\ threads = [t \in Threads |-> [pc |-> "idle", todo |-> << >>, held |-> << >>]]
    /\ lock = Unlocked
    /\ emitted = {}

\* Thread t performs the next lock operation of its call, once the lock
\* grants it: write waits for the lock to be free of every holder,
\* upgradable_read for it to have no writer and no upgradable reader, read
\* for it to have no writer, upgrade for the plain readers to leave, and the
\* Mutex for its holder, whoever that is, to unlock.  The call returns with
\* its last operation.
LockStep(t) ==
    LET th == threads[t]
        op == Head(th.todo)
        rest == Tail(th.todo)
        without(l) == SelectSeq(th.held, LAMBDA h : h # l)
        held == CASE op \in {"write", "upgradable_read", "read"} ->
                        Append(th.held, "session")
                  [] op = "lock" -> Append(th.held, "rp")
                  [] op \in {"release", "release_read"} -> without("session")
                  [] op = "unlock" -> without("rp")
                  [] OTHER -> th.held
    IN  /\ th.pc # "idle"
        /\ CASE op = "write" -> lock = Unlocked /\ script.readers = {}
             [] op = "upgradable_read" -> upgradable_read_granted(lock)
             [] op = "read" -> lock.mode # "write"
             [] op = "upgrade" -> lock.holder = t /\ script.readers = {}
             [] op = "lock" -> script.mutex = "none"
             [] OTHER -> TRUE
        /\ lock' = CASE op = "write" -> write(t)
                     [] op = "upgradable_read" -> upgradable_read(t)
                     [] op = "downgrade" -> downgrade_to_upgradable(lock)
                     [] op = "upgrade" -> write(t)
                     [] op = "release" -> Unlocked
                     [] OTHER -> lock
        /\ script' = CASE op = "read" ->
                              [script EXCEPT !.readers = @ \cup {t}]
                       [] op = "release_read" ->
                              [script EXCEPT !.readers = @ \ {t}]
                       [] op = "lock" -> [script EXCEPT !.mutex = t]
                       [] op = "unlock" -> [script EXCEPT !.mutex = "none"]
                       [] OTHER -> script
        /\ threads' = [threads EXCEPT ![t] =
               [pc |-> IF rest = << >> THEN "idle" ELSE th.pc,
                todo |-> rest, held |-> held]]
        /\ UNCHANGED <<sess, rp, users, rng, now, net, result, lastPrefix,
                       accepted, emitted>>

\* A thread outside every call enters one of the calls of impl Session, or a
\* thread inside a call goes on
NextLock ==
    \/ \E t \in Threads, call \in DOMAIN LockSteps :
           \E steps \in LockSteps[call] :
               /\ threads[t].pc = "idle"
               /\ threads' = [threads EXCEPT ![t] =
                      [pc |-> call, todo |-> steps, held |-> << >>]]
               /\ UNCHANGED <<sess, rp, users, rng, now, net, result,
                              lastPrefix, accepted, script, lock, emitted>>
    \/ \E t \in Threads : LockStep(t)

\* parking_lot's locks are eventually fair: a thread that is granted its
\* operation again and again gets it
SpecLock == InitLock /\ [][NextLock]_vars /\ \A t \in Threads : SF_vars(LockStep(t))

----------------------------------------------------------------------------
(* Threads calling into session "A" at once                                *)

\* what a peer may deliver while threads encrypt
ConcInputs(m, us, s) ==
    {p \in HandshakeInputs(m, us, s, {NonceHello, NonceKey}) : p.etk = PubKey(91)}
        \cup TrafficInputs(m, {FirstTrafficPacket})

\* Thread t calls encrypt: it takes the write lock and runs up to the seal
\* (lines 472-518), or to the end of a call that seals nothing.
ConcBegin(t, payload) ==
    LET m == sess["A"]
        b == encrypt_begin(m, payload, "A", rng["A"] + 1, now)
        drew == \E q \in b.pkts : q.hn > 0
        prev == IF EncryptResets(m, now) THEN {} ELSE lastPrefix["A"]
    IN  /\ threads[t].pc = "idle"
        /\ lock = Unlocked
        /\ Followed(IF b.ret = "Seal" THEN b.m.next_nonce + 1 ELSE b.m.next_nonce)
        /\ IF drew THEN rng["A"] < MaxRand ELSE TRUE
        /\ sess' = [sess EXCEPT !["A"] = b.m]
        /\ rng' = [rng EXCEPT !["A"] = IF drew THEN @ + 1 ELSE @]
        /\ emitted' = IF EncryptResets(m, now) THEN {} ELSE emitted
        /\ accepted' = [accepted EXCEPT !["A"] = IF b.m.established THEN @ ELSE {}]
        /\ IF b.ret = "Seal"
           THEN /\ threads' = [threads EXCEPT ![t] =
                       [IdleThread EXCEPT !.pc = "sealed", !.seal = b.seal,
                                          !.payload = payload]]
                /\ lock' = downgrade_to_upgradable(write(t))
                /\ lastPrefix' = [lastPrefix EXCEPT !["A"] = prev]
                /\ UNCHANGED result
           ELSE /\ lock' = Unlocked
                /\ result' = [result EXCEPT !["A"] =
                       [Called("encrypt", b.ret, Prefix(b.pkts), {})
                           EXCEPT !.prev = prev]]
                /\ lastPrefix' = [lastPrefix EXCEPT !["A"] =
                       IF b.pkts # {} THEN Prefix(b.pkts) ELSE prev]
                /\ UNCHANGED threads
        /\ UNCHANGED <<rp, users, now, net, script>>

\* Thread t, its message sealed, upgrades the lock, pushes the prefix,
\* increments the counter and returns (lines 520-525).
ConcEnd(t) ==
    LET m == sess["A"]
        e == encrypt_end(m, threads[t].payload, threads[t].seal)
    IN  /\ threads[t].pc = "sealed"
        /\ lock.holder \in {t, "none"}
        /\ sess' = [sess EXCEPT !["A"] = e.m]
        /\ threads' = [threads EXCEPT ![t] =
               [@ EXCEPT !.pc = "idle", !.prefix = Prefix(e.pkts),
                         !.dup = (threads[t].seal \in emitted)]]
        /\ emitted' = emitted \cup {threads[t].seal} \cup Prefix(e.pkts)
        /\ lock' = Unlocked
        /\ result' = [result EXCEPT !["A"] =
               [Called("encrypt", e.ret, Prefix(e.pkts), {})
                   EXCEPT !.prev = lastPrefix["A"]]]
        /\ lastPrefix' = [lastPrefix EXCEPT !["A"] = Prefix(e.pkts)]
        /\ UNCHANGED <<rp, users, rng, now, accepted, net, script>>

\* decrypt holds the lock as an upgradable reader from start to end
ConcDecrypt(pkt) ==
    /\ lock = Unlocked
    /\ DecryptCall("A", pkt, FALSE)
    /\ emitted' = IF WasReset(sess["A"], sess'["A"]) THEN {} ELSE emitted
    /\ UNCHANGED <<net, script, threads, lock>>

\* Session::reset takes the write lock
ConcReset ==
    /\ lock = Unlocked
    /\ ResetCall("A")
    /\ emitted' = {}
    /\ UNCHANGED <<net, script, threads, lock>>

\* Session::get_state takes a read lock, which an upgradable reader allows
ConcGetState ==
    /\ lock.mode # "write"
    /\ result' = [result EXCEPT !["A"] =
           Called("get_state", "Ok", {get_state(sess["A"])}, {})]
    /\ UNCHANGED <<sess, rp, users, rng, now, net, lastPrefix, accepted, script,
                   threads, lock, emitted>>

NextConc ==
    \/ \E t \in Threads, payload \in Payloads : ConcBegin(t, payload)
    \/ \E t \in Threads : ConcEnd(t)
    \/ \E pkt \in ConcInputs(sess["A"], users["A"], "A") : ConcDecrypt(pkt)
    \/ ConcReset
    \/ ConcGetState

SpecConc == Init /\ [][NextConc]_vars

\* Thread t calls decrypt with the well sealed traffic packet of nonce n: it
\* takes the lock as an upgradable reader (line 529) and goes on to open the
\* packet
DecBegin(t, n) ==
    /\ threads[t].pc = "idle"
    /\ upgradable_read_granted(lock)
    /\ lock' = upgradable_read(t)
    /\ threads' = [threads EXCEPT ![t] =
           [IdleThread EXCEPT !.pc = "opening", !.seal = n]]
    /\ UNCHANGED <<sess, rp, users, rng, now, net, result, lastPrefix, accepted,
                   script, emitted>>

\* Thread t, inside decrypt, opens the packet, asks the replay protector,
\* upgrades the lock where the session changes, and returns, which drops
\* the guard
DecEnd(t) ==
    /\ threads[t].pc = "opening"
    /\ lock.holder = t
    /\ DecryptNoting("A", TrafficInput(sess["A"], threads[t].seal), FALSE, TRUE)
    /\ threads' = [threads EXCEPT ![t] = IdleThread]
    /\ lock' = Unlocked
    /\ UNCHANGED <<net, script, emitted>>

\* threads that call decrypt on session "A" at once, after a handshake
NextDec ==
    \/ ConcBegin("t1", 2)
    \/ ConcEnd("t1")
    \/ \E pkt \in ConcInputs(sess["A"], users["A"], "A") : ConcDecrypt(pkt)
    \/ \E t \in Threads, n \in {FirstTrafficPacket, FirstTrafficPacket + 1} :
           DecBegin(t, n)
    \/ \E t \in Threads : DecEnd(t)
    \/ ConcGetState

SpecDec == Init /\ [][NextDec]_vars

----------------------------------------------------------------------------
\* Properties

\* C1: in every reachable state of a session the peer's temporary public key
\* is all zero exactly when next_nonce is below ReceivedHello (2): no key in
\* Init and SentHello, a key from ReceivedHello on.
C1_KeyIffCounter ==
    \A s \in Sessions :
        ULt(sess[s].next_nonce, ReceivedHello) = IsZero(sess[s].her_temp_pub_key)

\* the exchange C2 is about has just been carried out up to and including its
\* step n
FourDone(n) == script.four = n

\* C2: in the exchange A.encrypt(empty), B.decrypt, B.encrypt(empty),
\* A.decrypt, A.encrypt(data), B.decrypt, A.encrypt(data2), B.decrypt between
\* two fresh sessions without authentication every decrypt returns Ok, and
\* the two data decrypts leave exactly the payload that was encrypted.
C2_ExchangeSucceeds ==
    /\ (FourDone(2) \/ FourDone(6) \/ FourDone(8)) =>
           /\ result["B"].op = "decrypt"
           /\ result["B"].ret = "Ok"
    /\ FourDone(4) =>
           /\ result["A"].op = "decrypt"
           /\ result["A"].ret = "Ok"
    /\ (FourDone(6) \/ FourDone(8)) => result["B"].out = {script.want}

\* C3: after the eight steps of that exchange get_state reports Established
\* on both sessions.
C3_BothEstablished ==
    FourDone(Len(Four)) =>
        /\ get_state(sess["A"]) = Established
        /\ get_state(sess["B"]) = Established

\* the initiator has accepted a Key packet and finalised, the responder has
\* accepted a first traffic packet
Completed(i, r) ==
    /\ sess[i].is_initiator
    /\ sess[i].established
    /\ ~ sess[r].is_initiator
    /\ sess[r].established

Adopted(s) ==
    /\ sess[s].next_nonce = ReceivedHello
    /\ ~ sess[s].is_initiator
    /\ sess[s].her_temp_pub_key = sess[Peer(s)].our_temp_pub_key

\* C5: when both sessions have sent a Hello before receiving the other's,
\* exactly one of them resets and adopts the other's temporary key once both
\* Hellos are delivered, and both report Established once the remaining
\* packets of the handshake have been exchanged.
C5_CrossedHellos ==
    /\ script.cross = 4 => (Adopted("A") # Adopted("B"))
    /\ script.cross = Len(Cross) =>
           /\ get_state(sess["A"]) = Established
           /\ get_state(sess["B"]) = Established

C7_StrictlyIncreasing ==
    \A s \in Sessions :
        (result[s].op = "encrypt" /\ result[s].ret = "Ok") =>
            \A p \in result[s].prev : \A q \in result[s].nonce : ULt(p, q)

\* C7: without a reset in between and with the counter below u32::MAX - 15,
\* the prefix of a successful encrypt is never smaller than the prefix of the
\* one before, and strictly greater once that one was a traffic packet
\* (prefix 4 or more); handshake packets repeat their prefix.
C7_IncreasingInTraffic ==
    \A s \in Sessions :
        (result[s].op = "encrypt" /\ result[s].ret = "Ok") =>
            \A p \in result[s].prev : \A q \in result[s].nonce :
                /\ ULe(p, q)
                /\ ULe(FirstTrafficPacket, p) => ULt(p, q)

\* two traffic packets in a row, and before them a repeated handshake one
C7_Witness ==
    /\ result["A"].op = "encrypt"
    /\ result["A"].ret = "Ok"
    /\ result["A"].prev = {FirstTrafficPacket}
    /\ result["A"].nonce = {FirstTrafficPacket + 1}

\* C8: with encrypt calls of several threads on one established session,
\* every packet carries the counter value its message was sealed with, and
\* no two packets carry the same one.
C8_OneCounterPerPacket ==
    \A t \in Threads :
        threads[t].prefix # {} =>
            /\ threads[t].prefix = {threads[t].seal}
            /\ ~ threads[t].dup

\* both threads have emitted a packet, one of them while the other was idle
\* between two calls
C8_Witness ==
    /\ \A t \in Threads : threads[t].prefix # {}
    /\ \E t, u \in Threads : threads[t].seal # threads[u].seal
    /\ sess["A"].established

\* C9: a decrypt that returns an error leaves the session as it was, and the
\* replay protector too unless the packet was a traffic packet for a session
\* not yet established.
C9_ErrorLeavesState ==
    [][(result'["A"].op = "decrypt" /\ result'["A"].ret \notin {"Ok", "Panic"}) =>
           /\ sess'["A"] = sess["A"]
           /\ rp'["A"] # rp["A"] =>
                  /\ ~ sess["A"].established
                  /\ ULe(SentKey, sess["A"].next_nonce)]_vars

\* C10: reset leaves next_nonce 0, is_initiator and established false, the
\* temporary keys and the shared secret all zero, and does not touch the
\* peer's permanent key, the password, the login and auth_type.
C10_ResetPostcondition ==
    [][result'["A"].op = "reset" =>
           /\ sess'["A"].next_nonce = 0
           /\ ~ sess'["A"].is_initiator
           /\ ~ sess'["A"].established
           /\ sess'["A"].our_temp_priv_key = 0
           /\ IsZero(sess'["A"].our_temp_pub_key)
           /\ IsZero(sess'["A"].her_temp_pub_key)
           /\ IsZero(sess'["A"].shared_secret)
           /\ sess'["A"].her_public_key = sess["A"].her_public_key
           /\ sess'["A"].password = sess["A"].password
           /\ sess'["A"].login = sess["A"].login
           /\ sess'["A"].auth_type = sess["A"].auth_type]_vars

\* an established session with a password has just been reset
C10_Witness ==
    /\ result["A"].op = "reset"
    /\ result["A"].prev = {Established}
    /\ sess["A"].password # None
    /\ sess["A"].auth_type = AuthOne
    /\ sess["A"].next_nonce = 0

\* user u of a registry was added with a login of the caller's
ExplicitLogin(u) == Len(u.login) = 1

\* C11: after any add_user and remove_users calls no two users of the
\* registry that were added with an explicit login have the same login.
C11_UniqueLogins ==
    \A i, j \in 1..Len(users["A"]) :
        (/\ i < j
         /\ ExplicitLogin(users["A"][i])
         /\ ExplicitLogin(users["A"][j])) =>
            users["A"][i].login # users["A"][j].login

\* C12: add_user with an explicit login that a user of the registry already
\* has returns Duplicate and leaves the registry as it was, whatever the
\* passwords are.
C12_DuplicateRefused ==
    [][(/\ result'["A"].op = "add_user"
        /\ \E i \in 1..Len(users["A"]) : \E l \in result'["A"].nonce :
               users["A"][i].login = <<l>>) =>
           /\ result'["A"].ret = "Duplicate"
           /\ users'["A"] = users["A"]]_vars

----------------------------------------------------------------------------
(* What decrypt answers to the packets a peer may deliver                  *)

\* SessionMut::decrypt of packet pkt on session A as it is now
Try(pkt) == decrypt(sess["A"], rp["A"], pkt, users["A"], "A", now, FALSE)

\* the fields C13 lists are the same in sessions m and n
SameState(m, n) ==
    /\ m.next_nonce = n.next_nonce
    /\ m.established = n.established
    /\ m.our_temp_priv_key = n.our_temp_priv_key
    /\ m.our_temp_pub_key = n.our_temp_pub_key
    /\ m.her_temp_pub_key = n.her_temp_pub_key
    /\ m.shared_secret = n.shared_secret
    /\ m.is_initiator = n.is_initiator

\* the authentic packets with nonce n that the peer of session A may send now:
\* from the peer's permanent key, well sealed, with credentials the session
\* admits and a temporary key that is not all zero on the wire
Authentic(n) ==
    {p \in HandshakeInputs(sess["A"], users["A"], "A", {n}) :
        /\ sess["A"].require_auth => p.auth_type # AuthZero
        /\ ~ IsZero(p.etk)}

\* C13 as stated: on an established session every authentic RepeatHello
\* (nonce 1) returns Ok and leaves the session state unchanged
C13_RepeatHelloSilent ==
    sess["A"].established =>
        \A p \in Authentic(NonceRepeatHello) :
            /\ Try(p).ret = "Ok"
            /\ SameState(Try(p).m, sess["A"])

\* C13 amended: on an established session an authentic RepeatHello whose
\* encrypted_temp_key equals the stored her_temp_pub_key returns InvalidPacket
\* and leaves the session and the replay protector unchanged; one with
\* another key returns Ok, resets the session and the replay protector and
\* leaves the session in ReceivedHello with that key
C13_RepeatHelloOnEstablished ==
    sess["A"].established =>
        \A p \in Authentic(NonceRepeatHello) :
            IF p.etk = sess["A"].her_temp_pub_key
            THEN /\ Try(p).ret = "InvalidPacket"
                 /\ Try(p).m = sess["A"]
                 /\ Try(p).rp = rp["A"]
            ELSE /\ Try(p).ret = "Ok"
                 /\ Try(p).m = [reset(sess["A"]) EXCEPT
                                    !.her_temp_pub_key = p.etk,
                                    !.next_nonce = ReceivedHello]
                 /\ Try(p).rp = RpNew

\* an established session has refused a RepeatHello as an invalid packet
C13_Witness ==
    /\ result["A"].op = "decrypt"
    /\ result["A"].nonce = {NonceRepeatHello}
    /\ result["A"].ret = "InvalidPacket"
    /\ sess["A"].established

\* the packets with nonce n that may reach session A now: handshake packets
\* of 120 bytes and more, and packets shorter than a CryptoHeader
WithNonce(n) ==
    HandshakeInputs(sess["A"], users["A"], "A", {n})
        \cup BadHandshakeInputs(sess["A"], "A", n)
        \cup TrafficInputs(sess["A"], {n})

\* C14: on an established session every packet with nonce 2 (Key) or 3
\* (RepeatKey) returns KeyPktEstablishedSession and changes neither the
\* session nor the replay protector
C14_KeyPktRefused ==
    sess["A"].established =>
        \A n \in {NonceKey, NonceRepeatKey} : \A p \in WithNonce(n) :
            /\ Try(p).ret = "KeyPktEstablishedSession"
            /\ Try(p).m = sess["A"]
            /\ Try(p).rp = rp["A"]

\* C15: on a session that is not established and whose next_nonce is below
\* SentKey, every packet with a nonce of 4 or more returns NoSession and
\* changes neither the session nor the replay protector
C15_NoSession ==
    (~ sess["A"].established /\ ULt(sess["A"].next_nonce, SentKey)) =>
        \A p \in TrafficInputs(sess["A"], {FirstTrafficPacket,
                                           FirstTrafficPacket + 1, U32_MAX}) :
            /\ Try(p).ret = "NoSession"
            /\ Try(p).m = sess["A"]
            /\ Try(p).rp = rp["A"]

\* C16: in every session state, an authentic Hello (nonce 0) whose sender
\* wrote the known her_temp_pub_key as its temporary key returns
\* InvalidPacket
C16_DuplicateHello ==
    ~ sess["A"].require_auth =>
        \A p \in SameKeyInputs(sess["A"], "A") :
            Try(p).ret = "InvalidPacket"

\* C17: in every session state, a well sealed Hello (nonce 0) whose sender
\* wrote an all-zero temporary key returns Wiseguy and stores nothing
C17_ZeroKeyRefused ==
    ~ sess["A"].require_auth =>
        /\ Try(ZeroKeyInput(sess["A"], "A", NonceHello)).ret = "Wiseguy"
        /\ Try(ZeroKeyInput(sess["A"], "A", NonceHello)).m = sess["A"]

\* the handshake packets that may reach session A now and whose challenge
\* matches no registered user
NoUser ==
    {p \in UNION {WithNonce(n) : n \in NonceHello..NonceRepeatKey}
             \cup ShakeInputs(sess["A"], users["A"], "A") :
        /\ p.len >= CryptoHeaderSize
        /\ ULe(to_be(p.nonce), NonceRepeatKey)
        /\ get_auth(users["A"], p.auth_type, p.lookup) = 0}

Registered(l) == \E i \in 1..Len(users["A"]) : users["A"][i].login = l

\* password w is the password of no registered user with login l
WrongPassword(l, w) ==
    \A i \in 1..Len(users["A"]) :
        users["A"][i].login = l =>
            users["A"][i].secret # hash_password(l, w, AuthTwo).secret

\* C19: two Hello packets that differ only in that one names a registered
\* login with a wrong password and the other an unregistered login both
\* return UnrecognizedAuth and leave the same state
C19_NoEnumeration ==
    \A known, unknown \in {<<1>>, <<2>>}, w \in UserPasswords :
        (/\ Registered(known) /\ WrongPassword(known, w)
         /\ ~ Registered(unknown)) =>
            /\ Try(LoginInput(sess["A"], "A", known, w)).ret = "UnrecognizedAuth"
            /\ Try(LoginInput(sess["A"], "A", unknown, w)).ret = "UnrecognizedAuth"
            /\ Try(LoginInput(sess["A"], "A", known, w)).m
                   = Try(LoginInput(sess["A"], "A", unknown, w)).m

----------------------------------------------------------------------------
(* The setup timeout                                                       *)

\* session A is not established and has seen no traffic for the setup
\* timeout (10 seconds by default) or longer
IdleInSetup ==
    /\ ~ sess["A"].established
    /\ now - sess["A"].time_of_last_packet
           >= DEFAULT_SETUP_RESET_AFTER_INACTIVITY_SECONDS

\* the step was an encrypt that started from Init: it emitted a Hello sealed
\* for a temporary key drawn in the call, and the session keeps nothing of an
\* earlier handshake
FreshHello ==
    /\ result'["A"].ret = "Ok"
    /\ result'["A"].nonce = {NonceHello}
    /\ sess'["A"].next_nonce = SentHello
    /\ sess'["A"].is_initiator
    /\ rng'["A"] = rng["A"] + 1
    /\ sess'["A"].our_temp_priv_key = TempPriv("A", rng'["A"])
    /\ IsZero(sess'["A"].her_temp_pub_key)
    /\ IsZero(sess'["A"].shared_secret)
    /\ sess'["A"].time_of_last_packet = now

\* C20 as stated: with default timeouts, encrypt on any session that is not
\* established and has seen no traffic for at least 10 seconds resets the
\* session to Init and emits a fresh Hello (nonce 0)
C20_IdleSetupResets ==
    [][(Encrypt("A", 2) /\ IdleInSetup) => FreshHello]_vars

\* C20 amended: the same for every such session whose next_nonce is not
\* SentHello; a session in SentHello is not reset however long it was idle:
\* encrypt emits a RepeatHello (nonce 1) with the temporary key it has and
\* leaves the session as it was
C20_IdleSetupResetsUnlessSentHello ==
    [][(Encrypt("A", 2) /\ IdleInSetup) =>
           IF sess["A"].next_nonce # SentHello
           THEN FreshHello
           ELSE /\ result'["A"].ret = "Ok"
                /\ result'["A"].nonce = {NonceRepeatHello}
                /\ sess'["A"] = sess["A"]]_vars

\* a session that had sent a handshake packet was left idle, and the next
\* encrypt emitted a Hello with a new temporary key
C20_Witness ==
    /\ rng["A"] >= 2
    /\ result["A"].op = "encrypt"
    /\ result["A"].nonce = {NonceHello}
    /\ sess["A"].next_nonce = SentHello
    /\ sess["A"].time_of_last_packet = now
    /\ now >= DEFAULT_SETUP_RESET_AFTER_INACTIVITY_SECONDS

----------------------------------------------------------------------------
(* The counter near its last values                                        *)

\* the step is a call of encrypt on session A
EncryptStep == \E payload \in Payloads : Encrypt("A", payload)

\* C21: encrypt on a session whose next_nonce is MAX_NONCE (u32::MAX - 15) or
\* more resets the session, emits a fresh Hello (nonce 0, new temporary key)
\* and leaves the session in SentHello; no call of encrypt emits a traffic
\* packet with a counter of MAX_NONCE or more
C21_WrapResets ==
    [][/\ (EncryptStep /\ ULe(MAX_NONCE, sess["A"].next_nonce)) =>
              /\ result'["A"].ret = "Ok"
              /\ result'["A"].nonce = {NonceHello}
              /\ sess'["A"].next_nonce = SentHello
              /\ sess'["A"].is_initiator
              /\ ~ sess'["A"].established
              /\ rng'["A"] = rng["A"] + 1
              /\ sess'["A"].our_temp_priv_key = TempPriv("A", rng'["A"])
              /\ IsZero(sess'["A"].her_temp_pub_key)
              /\ IsZero(sess'["A"].shared_secret)
       /\ (EncryptStep \/ EncryptMany("A")) =>
              \A n \in result'["A"].nonce :
                  ULe(FirstTrafficPacket, n) => ULt(n, MAX_NONCE)]_vars

\* encrypt found the counter at MAX_NONCE or above and emitted a Hello
C21_Witness ==
    /\ result["A"].op = "encrypt"
    /\ result["A"].wrap
    /\ result["A"].nonce = {NonceHello}
    /\ sess["A"].next_nonce = SentHello

----------------------------------------------------------------------------
(* Sealing and opening a message                                           *)

\* C22: encrypt_rnd_nonce grows the message by 16 bytes; decrypt_rnd_nonce
\* after it with the same nonce and secret returns Ok, shrinks the message by
\* 16 bytes and leaves the original payload, and with another nonce or
\* another secret it returns Err
C22_RoundTrip ==
    /\ script.stage = "encrypted" =>
           Len(script.msg.bytes) = Len(script.orig) + 16
    /\ (script.stage = "decrypted" /\ script.sealed) =>
           IF script.with.nonce = script.nonce /\ script.with.secret = script.secret
           THEN /\ script.res = "Ok"
                /\ script.msg.bytes = script.orig
                /\ Len(script.msg.bytes) = Len(script.orig)
           ELSE script.res = "Err"

\* the 11 bytes of the test were sealed and opened again
C22_Witness ==
    /\ script.stage = "decrypted"
    /\ script.sealed
    /\ script.res = "Ok"
    /\ Len(script.orig) = 11
    /\ script.msg.bytes = script.orig

----------------------------------------------------------------------------
(* Threads inside decrypt                                                  *)

\* C23: while a thread is inside decrypt of a traffic packet on an
\* established session, a second thread that calls decrypt on the session is
\* not blocked on the session lock
C23_DecryptsOverlap ==
    \A t \in Threads :
        (threads[t].pc = "opening" /\ sess["A"].established) =>
            upgradable_read_granted(lock)

----------------------------------------------------------------------------
(* The length of a packet                                                  *)

\* C24: a message shorter than 20 bytes returns Runt, and on an established
\* session every well sealed traffic packet of 20 bytes or more with a nonce
\* the replay protector has not seen returns Ok, whatever its length
C24_TwentyBytesSuffice ==
    /\ Try(RuntInput).ret = "Runt"
    /\ sess["A"].established =>
           \A n \in ReplayNonces, payload \in Payloads :
               LET p == TrafficPacket(to_be(n), n,
                                      IF sess["A"].is_initiator THEN 0 ELSE 1,
                                      sess["A"].shared_secret, payload)
               IN  check_nonce(rp["A"], n).ok => Try(p).ret = "Ok"

----------------------------------------------------------------------------
(* Hellos that cross                                                       *)

\* packet x in flight is an authentic Hello or RepeatHello for session s, its
\* encrypted_temp_key is not the key the session knows and is not all zero
CrossedHello(s, x) ==
    /\ x.to = s
    /\ sess[s].next_nonce = SentHello
    /\ to_be(x.pkt.nonce) \in {NonceHello, NonceRepeatHello}
    /\ x.pkt.pk = sess[s].her_public_key
    /\ x.pkt.key = HandshakeKey(sess[s], s, to_be(x.pkt.nonce), None)
    /\ x.pkt.etk # sess[s].her_temp_pub_key
    /\ ~ IsZero(x.pkt.etk)

\* the permanent public key of the context of session s is numerically
\* greater than the peer's
OursGreater(s) == sess[s].her_public_key[2] < PubKey(PermPriv(s))[2]

\* decrypt of x has left session s and its replay protector as they were
\* and has returned Ok
HeldState(s) ==
    /\ result'[s].ret = "Ok"
    /\ sess'[s] = sess[s]
    /\ rp'[s] = rp[s]

\* decrypt of x has reset session s and its replay protector, has stored the
\* encrypted_temp_key of x and has left the session in ReceivedHello
YieldedTo(s, x) ==
    /\ result'[s].ret = "Ok"
    /\ sess'[s].next_nonce = ReceivedHello
    /\ ~ sess'[s].is_initiator
    /\ ~ sess'[s].established
    /\ sess'[s].our_temp_priv_key = 0
    /\ sess'[s].her_temp_pub_key = x.pkt.etk
    /\ rp'[s] = RpNew

\* C25 as stated: a session in SentHello that receives an authentic Hello
\* with another ephemeral key holds its state if its own permanent public key
\* is the greater, and otherwise resets and adopts the key
C25_GreaterKeyHolds ==
    [][\A s \in Sessions : \A x \in net :
           (PairDecrypt(s, x) /\ CrossedHello(s, x)) =>
               IF OursGreater(s)
               THEN HeldState(s)
               ELSE YieldedTo(s, x)]_vars

\* C25 amended: the session holds its state unless the peer's permanent public
\* key is lower than its own; if the peer's key is the lower, it resets the
\* session and the replay protector, stores the key of the packet and moves
\* to ReceivedHello
C25_LowerKeyHolds ==
    [][\A s \in Sessions : \A x \in net :
           (PairDecrypt(s, x) /\ CrossedHello(s, x)) =>
               IF OursGreater(s)
               THEN YieldedTo(s, x)
               ELSE HeldState(s)]_vars

\* both sessions have sent a Hello and have received the other's: A, whose
\* key is the lower, is still in SentHello and B has yielded
C25_Witness ==
    /\ result["A"].op = "decrypt" /\ result["A"].ret = "Ok"
    /\ sess["A"].next_nonce = SentHello /\ sess["A"].is_initiator
    /\ result["B"].op = "decrypt" /\ result["B"].ret = "Ok"
    /\ sess["B"].next_nonce = ReceivedHello /\ ~ sess["B"].is_initiator
    /\ rng["B"] >= 1

----------------------------------------------------------------------------
(* The ephemeral key a handshake packet carries                            *)

\* C26: whenever decrypt accepts a Hello or Key packet and stores an ephemeral
\* key, the stored her_temp_pub_key is the our_temp_pub_key the sender sealed
\* into the packet, not the bytes on the wire
C26_StoresSendersKey ==
    [][\A s \in Sessions : \A x \in net :
           (/\ PairDecrypt(s, x)
            /\ ULe(to_be(x.pkt.nonce), NonceRepeatKey)
            /\ result'[s].ret = "Ok"
            /\ sess'[s].her_temp_pub_key # sess[s].her_temp_pub_key) =>
               /\ sess'[s].her_temp_pub_key = x.pkt.temp
               /\ sess'[s].her_temp_pub_key # x.pkt.etk]_vars

----------------------------------------------------------------------------
(* The timeouts                                                            *)

\* what C27 says of when session m is reset at time t
TimeoutDue(m, t) ==
    /\ m.next_nonce # SentHello
    /\ \/ t - m.time_of_last_packet >= m.reset_after_inactivity_seconds
       \/ /\ t - m.time_of_last_packet >= m.setup_reset_after_inactivity_seconds
          /\ ~ m.established

\* the timeouts a caller may have written into the public fields of a
\* session, the setup timeout not above the other, and the times of a call
TimeoutPairs == {<<10, 60>>, <<10, 10>>, <<0, 60>>, <<0, 0>>, <<9, 11>>}
TimeoutTimes == {0, 8, 9, 10, 11, 59, 60, 61}

\* C27: with the setup timeout not above the other, reset_if_timeout resets
\* the session if and only if next_nonce is not SentHello and the session has
\* been idle for reset_after_inactivity_seconds, or for
\* setup_reset_after_inactivity_seconds while not established; a reset sets
\* time_of_last_packet to now, and a session in SentHello is left as it is
C27_TimeoutRule ==
    [][/\ ResetIfTimeout("A") =>
              IF TimeoutDue(sess["A"], now)
              THEN sess'["A"] = reset([sess["A"] EXCEPT !.time_of_last_packet = now])
              ELSE sess'["A"] = sess["A"]
       /\ \A p \in TimeoutPairs, d \in TimeoutTimes :
              LET m == [sess["A"] EXCEPT
                           !.setup_reset_after_inactivity_seconds = p[1],
                           !.reset_after_inactivity_seconds = p[2]]
                  t == m.time_of_last_packet + d
              IN  reset_if_timeout(m, t) =
                      IF TimeoutDue(m, t)
                      THEN reset([m EXCEPT !.time_of_last_packet = t])
                      ELSE m]_vars

\* reset_if_timeout was called on a session in SentHello that had been idle
\* for longer than both timeouts, and the session is still in SentHello
C27_Witness ==
    /\ result["A"].op = "reset_if_timeout"
    /\ sess["A"].next_nonce = SentHello
    /\ now - sess["A"].time_of_last_packet
           >= sess["A"].reset_after_inactivity_seconds

----------------------------------------------------------------------------
(* The first traffic packet                                                *)

\* C28: on a session that is not established and has next_nonce >= SentKey, a
\* packet with a nonce of 4 or more leaves the replay protector initialised to
\* nonce + 1 whether or not it opens; if it opens, the shared secret is
\* stored, established is set, next_nonce advances by 3 and the time of the
\* last packet is updated, and if it does not the session is as it was
C28_FirstTraffic ==
    (~ sess["A"].established /\ ULe(SentKey, sess["A"].next_nonce)) =>
        \A n \in {FirstTrafficPacket, FirstTrafficPacket + 1} :
            \A p \in TrafficInputs(sess["A"], {n}) :
                /\ Try(p).rp = RpInit(n + 1)
                /\ Try(p).m =
                       IF Try(p).ret = "Ok"
                       THEN [sess["A"] EXCEPT
                                !.shared_secret = AcceptKey(sess["A"]),
                                !.established = TRUE,
                                !.next_nonce = sess["A"].next_nonce + 3,
                                !.time_of_last_packet = now]
                       ELSE sess["A"]

----------------------------------------------------------------------------
(* The ephemeral key of a repeated handshake packet                        *)

\* C29: encrypt draws a new ephemeral key pair exactly when it emits a Hello
\* (from Init) or a Key (from ReceivedHello); a RepeatHello is emitted from
\* SentHello and a RepeatKey from SentKey, each carries the ephemeral key the
\* session already had, the one the Hello or Key before it carried, and
\* leaves next_nonce and the ephemeral keys as they were
C29_RepeatsKeepKeys ==
    [][\A payload \in Payloads : Encrypt("A", payload) =>
           LET e == encrypt(sess["A"], payload, "A", rng["A"] + 1, now)
               drawn == /\ sess'["A"].our_temp_priv_key = TempPriv("A", rng'["A"])
                        /\ sess'["A"].our_temp_priv_key # sess["A"].our_temp_priv_key
               kept == /\ sess'["A"].our_temp_priv_key = sess["A"].our_temp_priv_key
                       /\ sess'["A"].our_temp_pub_key = sess["A"].our_temp_pub_key
                       /\ sess'["A"].her_temp_pub_key = sess["A"].her_temp_pub_key
               repeat(n, state) ==
                   result'["A"].nonce = {n} =>
                       /\ sess["A"].next_nonce = state
                       /\ sess'["A"].next_nonce = state
                       /\ kept
                       /\ ~ IsZero(sess["A"].our_temp_pub_key)
                       /\ \A q \in e.pkts : q.temp = sess["A"].our_temp_pub_key
           IN  /\ drawn <=> result'["A"].nonce \in {{NonceHello}, {NonceKey}}
               /\ drawn \/ kept \/ sess'["A"].our_temp_priv_key = 0
               /\ result'["A"].nonce = {NonceHello} =>
                      reset_if_timeout(sess["A"], now).next_nonce = Init_
               /\ result'["A"].nonce = {NonceKey} =>
                      reset_if_timeout(sess["A"], now).next_nonce = ReceivedHello
               /\ repeat(NonceRepeatHello, SentHello)
               /\ repeat(NonceRepeatKey, SentKey)
               /\ \A q \in e.pkts :
                      ULe(to_be(q.nonce), NonceRepeatKey) =>
                          /\ q.temp = sess'["A"].our_temp_pub_key
                          /\ q.temp = PubKey(sess'["A"].our_temp_priv_key)]_vars

\* a RepeatKey has been emitted with the key pair drawn for the Key before it
C29_Witness ==
    /\ result["A"].op = "encrypt"
    /\ result["A"].nonce = {NonceRepeatKey}
    /\ sess["A"].next_nonce = SentKey
    /\ sess["A"].our_temp_priv_key # 0
    /\ sess["A"].our_temp_priv_key # TempPriv("A", rng["A"])

----------------------------------------------------------------------------
(* A password that is registered twice                                     *)

\* C30: add_user with a password whose secret a user of the registry already
\* has, and with a login no user of the registry has, returns Ok and leaves
\* the registry as it was
C30_SameSecretIgnored ==
    [][\A password \in UserPasswords, login \in UserLogins, ipv6 \in UserIp6s :
           LET user == NewUser(password, login, ipv6, Len(users["A"]))
           IN  (/\ AddUser("A", password, login, ipv6)
                /\ \E i \in 1..Len(users["A"]) : users["A"][i].secret = user.secret
                /\ \A i \in 1..Len(users["A"]) : users["A"][i].login # user.login) =>
                   /\ result'["A"].ret = "Ok"
                   /\ users'["A"] = users["A"]]_vars

----------------------------------------------------------------------------
(* The answer to a Hello                                                   *)

\* the last call on session A was a decrypt that accepted a Hello and left
\* the session in ReceivedHello
HelloAccepted ==
    /\ result["A"].op = "decrypt"
    /\ result["A"].ret = "Ok"
    /\ sess["A"].next_nonce = ReceivedHello

\* C31: the encrypt that follows a decrypt which accepted a Hello and left the
\* session in ReceivedHello emits a Key packet (nonce 2) sealed for the
\* temporary key the session took from that Hello and leaves the session in
\* SentKey; it does not emit a Hello
C31_HelloAnsweredWithKey ==
    [][\A payload \in Payloads :
           (Encrypt("A", payload) /\ HelloAccepted) =>
               LET e == encrypt(sess["A"], payload, "A", rng["A"] + 1, now)
               IN  /\ result'["A"].ret = "Ok"
                   /\ result'["A"].nonce = {NonceKey}
                   /\ sess'["A"].next_nonce = SentKey
                   /\ \A q \in e.pkts :
                          q.key = get_shared_secret(PermPriv("A"),
                                                    sess["A"].her_temp_pub_key,
                                                    None)]_vars

----------------------------------------------------------------------------
(* A password without a login                                              *)

\* session A was given a password and no login, and the context of B has
\* registered that password
PasswordOnly ==
    /\ sess["A"].password # None
    /\ sess["A"].login = None
    /\ sess["A"].auth_type = AuthOne
    /\ \E i \in 1..Len(users["B"]) :
           users["B"][i].secret
               = hash_password(None, sess["A"].password, AuthOne).secret

\* C32: when the responder has registered a password with add_user and the
\* initiator was given that password and no login with set_auth, the
\* responder's decrypt accepts the initiator's Hello, with and without
\* require_auth
C32_PasswordOnlyAccepted ==
    [][\A x \in net :
           (/\ PairDecrypt("B", x)
            /\ PasswordOnly
            /\ x.pkt.auth_type = AuthOne
            /\ to_be(x.pkt.nonce) = NonceHello
            /\ sess["B"].next_nonce = Init_) =>
               result'["B"].ret = "Ok"]_vars

----------------------------------------------------------------------------
(* Forged packets                                                          *)

\* packets of someone who has none of the secrets: traffic packets with any
\* nonce and a Hello and a Key, all sealed with a key of their own
Forged ==
    {TrafficPacket(to_be(n), n, d, Zero, 2) :
        n \in {FirstTrafficPacket, FirstTrafficPacket + 1, U32_MAX - 1},
        d \in {0, 1}}
        \cup {HandshakePacket(to_be(n), AuthZero, None, 0,
                              sess["A"].her_public_key, Zero, PubKey(91),
                              <<9, 1, 91>>, 0) : n \in {NonceHello, NonceKey}}

\* packets the peer of session A may send now, well sealed: the handshake
\* packets and the traffic packets with the first nonces
Valid ==
    HandshakeInputs(sess["A"], users["A"], "A", NonceHello..NonceRepeatKey)
        \cup {TrafficInput(sess["A"], n) :
                  n \in {FirstTrafficPacket, FirstTrafficPacket + 1}}

----------------------------------------------------------------------------
(* Thirty-two bits                                                         *)

\* C34: in every reachable state and for every incoming packet no addition
\* on a nonce leaves the 32 bits: decrypt run with overflow checks never
\* stops at nonce + 1 (line 575), next_nonce += 3 (line 585) or
\* next_nonce + 1 (line 1044), and the counter that encrypt seals with can be
\* incremented (line 524)
C34_NoOverflow ==
    /\ \A pkt \in WrapInputs(sess["A"], users["A"], "A") :
           decrypt(sess["A"], rp["A"], pkt, users["A"], "A", now, TRUE).ret
               # "Panic"
    /\ \A payload \in Payloads :
           LET b == encrypt_begin(sess["A"], payload, "A", rng["A"] + 1, now)
           IN  b.ret = "Seal" => ~ Overflows(b.seal, 1)

----------------------------------------------------------------------------
(* Who started the handshake                                               *)

\* what C35 says of session s
RoleFollowsPosition(s) ==
    /\ sess[s].next_nonce \in {SentHello, ReceivedKey} => sess[s].is_initiator
    /\ sess[s].next_nonce \in {Init_, ReceivedHello, SentKey} =>
           ~ sess[s].is_initiator
    /\ (ULt(ReceivedKey, sess[s].next_nonce) /\ ~ sess[s].established) =>
           sess[s].is_initiator

Busy(t) == threads[t].pc # "idle"

\* the lock operation thread t is about to perform
NextOp(t) == IF threads[t].todo = << >> THEN "none" ELSE Head(threads[t].todo)

\* a thread that holds both locks took the session's first, and no thread
\* asks for the session's lock while it holds the replay protector's
SessionBeforeMutex ==
    \A t \in Threads :
        /\ threads[t].held \in {<< >>, <<"session">>, <<"rp">>, <<"session", "rp">>}
        /\ NextOp(t) \in {"write", "upgradable_read", "read", "upgrade"}
               => threads[t].held \in {<< >>, <<"session">>}

\* a thread about to upgrade is the one upgradable reader
SingleUpgrader ==
    \A t \in Threads : NextOp(t) = "upgrade" => lock = upgradable_read(t)

\* while a call is under way, some thread can take its next step
SomeThreadRuns ==
    (\E t \in Threads : Busy(t)) => \E t \in Threads : ENABLED LockStep(t)

\* C36: concurrent encrypt, decrypt, reset, reset_if_timeout, set_auth,
\* get_state and stats calls on one Session never deadlock: a thread holding
\* both locks took the SessionMut lock before the replay protector's mutex,
\* only the one upgradable reader upgrades, some thread can always go on, and
\* every call returns, having released its locks.
C36_NoDeadlock ==
    /\ [](SessionBeforeMutex /\ SingleUpgrader /\ SomeThreadRuns)
    /\ \A t \in Threads :
           Busy(t) ~> (~Busy(t) /\ threads[t].held = << >>)

\* one thread holds both locks while the other waits for one of them
C36_Witness ==
    \E t, u \in Threads :
        /\ threads[t].held = <<"session", "rp">>
        /\ Busy(u) /\ NextOp(u) \in {"lock", "write", "upgradable_read", "read"}
        /\ ~ ENABLED LockStep(u)

\* C37: after any sequence of set_auth calls auth_type is Zero exactly when
\* the session has no password
C37_ZeroIffNoPassword ==
    sess["A"].auth_type = AuthZero <=> sess["A"].password = None

----------------------------------------------------------------------------
(* The assertions of decrypt_handshake                                     *)

\* the packets of a CryptoHeader and more that may reach session A now
HeaderInputs ==
    {p \in ShakeInputs(sess["A"], users["A"], "A")
             \cup WrapInputs(sess["A"], users["A"], "A") :
        p.len >= CryptoHeaderSize}

\* C38: in no reachable state of a session built by Session::new does a
\* handshake packet make decrypt_handshake fail one of its assertions (the
\* nonce/temp-key consistency check, the RepeatKey temp-key equality checks,
\* the not-established check, the "nonce sequence error" check): decrypt
\* never returns DecryptError::Internal for it
C38_AssertionsHold ==
    \A pkt \in HeaderInputs, oc \in BOOLEAN :
        decrypt(sess["A"], rp["A"], pkt, users["A"], "A", now, oc).ret
            # "Internal"

============================================================================
